---- MODULE Spec2Model ----
(***************************************************************************)
(* Model of the relay bridge bot: scripts/bridge.js (main loop, bridge     *)
(* cycle, gas rescue, token selection), the BridgeService it calls and     *)
(* EthereumUtils.approveToken.                                             *)
(*                                                                         *)
(* Units.  TLC integers are 32 bit, so amounts are kept in the largest     *)
(* unit that still separates every threshold of the code:                  *)
(*   native ETH and WETH balances : gwei (1e9 wei); 0.001 ETH = 1000000    *)
(*   USDC balances                : raw 6-decimal units; 1 USDC = 1000000  *)
(*   gas prices                   : wei; 0.1 gwei = 100000000              *)
(***************************************************************************)
EXTENDS Integers, Sequences, FiniteSets, TLC

VARIABLES
  pc,          \* control location of main / executeBridgeCycle / bridgeETHForGas
  wallets,     \* the pool returned by loadWallets: index -> active flag
  validKey,    \* index -> whether the record's privateKey makes an ethers.Wallet
  fatal,       \* message of the error that reached main's outer catch ("none")
  wallet,      \* index of the wallet selected for the running cycle (0: none)
  balances,    \* snapshot handed to findBestTokenToBridge
  bestToken,   \* candidate returned by findBestTokenToBridge (Null: none)
  ethBalance,  \* executeBridgeCycle: ethBalance (Unread before the read)
  updatedEthBalance, \* executeBridgeCycle: updatedEthBalance
  baseETHBalance,    \* bridgeETHForGas: baseETHBalance
  bridgeSuccess,     \* result of bridgeETHForGas: "none", "true", "false"
  updatedStatus,     \* bridgeETHForGas: updatedStatus.status ("none" before the read)
  lastGas,     \* gas price returned by the latest checkGasPrice 
  gasEstimate, \* executeBridgeCycle: gasEstimate of the swap, in thousands of gas
  gasPrice,    \* executeBridgeCycle: gasPrice fetched for the pre-flight cost
  swapQuote,   \* response of getQuote
  swapTargetSymbol,  \* executeBridgeCycle: swapTargetSymbol
  swapResult,  \* result of executeSwap
  quoteParams, \* the cycle's bridge quote request, while it is in flight
  quoteResponse,     \* bridge quote kept between request and execution
  ops,         \* external operations of the cycle, in order: <<[op, st]>>
  txs,         \* transactions submitted in the cycle, in order
  outcome,     \* terminal state of the cycle: "none", "Completed", "Skipped", "Failed"
  error,       \* the error thrown in the cycle: the step it arose in and its message
  allowanceRead,     \* approveToken: currentAllowance as read for the router and the relayer
  initialStatus      \* executeBridgeCycle: initialStatus.status

vars == <<pc, wallets, validKey, fatal, wallet, balances, bestToken, ethBalance, updatedEthBalance,
          baseETHBalance, bridgeSuccess, updatedStatus, lastGas, gasEstimate, gasPrice, swapQuote,
          swapTargetSymbol, swapResult, quoteParams, quoteResponse, ops, txs,
          outcome, error, allowanceRead, initialStatus>>

----------------------------------------------------------------------------
(* Bounds of the model *)

\* balances of a snapshot range up to the symbol's minimum plus MaxExtra
MaxExtra == 1
\* number of records in the wallet pool
NumWallets == 2

----------------------------------------------------------------------------
(* Program constants *)

BASE == 8453
ARBITRUM == 42161
OPTIMISM == 10
LINEA == 59144

\* bridgeService.chainIds, in insertion order (base, arbitrum, optimism, linea)
chainIds == <<BASE, ARBITRUM, OPTIMISM, LINEA>>

ChainSet == {chainIds[i] : i \in 1..Len(chainIds)}

\* Object.entries(balances): the snapshot's keys are integer-like, so they are
\* visited in ascending numeric order whatever the insertion order was
BalanceKeyOrder == <<OPTIMISM, BASE, ARBITRUM, LINEA>>

Symbols == {"WETH", "USDC"}

\* MIN_BRIDGE_AMOUNTS (WETH in gwei, USDC in raw units)
MIN_WETH == 1000000
MIN_USDC == 1000000

MIN_BRIDGE_AMOUNTS(symbol) == IF symbol = "WETH" THEN MIN_WETH ELSE MIN_USDC

\* TARGET_TOKENS
TARGET_TOKENS(symbol) == IF symbol = "WETH" THEN "USDC" ELSE "WETH"

\* GAS_BRIDGE_AMOUNT = 0.001 ETH, in gwei
GAS_BRIDGE_AMOUNT == 1000000

\* minGasETH = 0.0005 ETH, in gwei
MIN_GAS_ETH == 500000

\* MAX_GAS_PRICE_GWEI = 0.1 gwei, in wei
MAX_GAS_PRICE_WEI == 100000000

NATIVE_PLACEHOLDER == "0xEeeeeEeeeEeEeeEeEeEeeEEEeeeeEeeeeeeeEEeE"
ZERO_ADDRESS == "0x0000000000000000000000000000000000000000"

\* bridgeService.tokenAddresses
tokenAddresses(chainId, symbol) ==
  CASE chainId = BASE /\ symbol = "USDC" -> "0x833589fCD6eDb6E08f4c7C32D4f71b54bdA02913"
    [] chainId = BASE /\ symbol = "WETH" -> "0x4200000000000000000000000000000000000006"
    [] chainId = ARBITRUM /\ symbol = "USDC" -> "0xaf88d065e77c8cC2239327C5EDb3A432268e5831"
    [] chainId = ARBITRUM /\ symbol = "WETH" -> "0x82aF49447D8a07e3bd95BD0d56f35241523fBab1"
    [] chainId = OPTIMISM /\ symbol = "USDC" -> "0x0b2C639c533813f4Aa9D7837CAf62653d097Ff85"
    [] chainId = OPTIMISM /\ symbol = "WETH" -> "0x4200000000000000000000000000000000000006"
    [] chainId = LINEA /\ symbol = "USDC" -> "0x176211869cA2b568f2A7D4EE941E073a821EE1ff"
    [] chainId = LINEA /\ symbol = "WETH" -> "0xe5D7C2a44FfDDf6b295A15c148167daaAf5Cf34f"

----------------------------------------------------------------------------
(* Balance snapshots *)

\* `balance` of an entry whose read failed: the entry is { error } only
Undefined == 0 - 1

ErrEntry == [error |-> TRUE, balance |-> Undefined]
OkEntry(b) == [error |-> FALSE, balance |-> b]

\* entries a token read can produce: a failed read, or a balance around the
\* symbol's minimum
Entries(symbol) ==
  {ErrEntry} \cup
  {OkEntry(b) : b \in (MIN_BRIDGE_AMOUNTS(symbol) - 1) .. (MIN_BRIDGE_AMOUNTS(symbol) + MaxExtra)}

\* every chain key is present; each chain holds one entry per tracked symbol
Snapshots == [ChainSet -> [WETH : Entries("WETH"), USDC : Entries("USDC")]]

\* the snapshots drawn inside a bridge cycle: failed, just below, at the minimum
CycleEntries(symbol) ==
  {ErrEntry, OkEntry(MIN_BRIDGE_AMOUNTS(symbol) - 1), OkEntry(MIN_BRIDGE_AMOUNTS(symbol))}

CycleSnapshots == [ChainSet -> [WETH : CycleEntries("WETH"), USDC : CycleEntries("USDC")]]

NoSnapshot == [c \in ChainSet |-> [WETH |-> ErrEntry, USDC |-> ErrEntry]]

----------------------------------------------------------------------------
(* Token selection *)

Null == [symbol |-> "null"]

\* chainData[symbol] && chainData[symbol].balance && !chainData[symbol].error
EntryUsable(e) == e.balance # Undefined /\ ~e.error

\* faulty variant of BelowMinimum: no minimum is applied
BelowMinimumNever(symbol, balance) == FALSE

\* balance.lt(minAmount) -> continue
BelowMinimum(symbol, balance) == balance < MIN_BRIDGE_AMOUNTS(symbol)

\* faulty variant of Better: an equal balance replaces the best so far
BetterOrEqual(best, balance) == best = Null \/ balance >= best.balance

\* !bestBalance || balance.gt(bestBalance)
Better(best, balance) == best = Null \/ balance > best.balance

\* the loop of findTokenBalanceOnChains from position i of the key order,
\* `best` holding bestBalance/bestChainId so far
RECURSIVE ScanChains(_, _, _, _)
ScanChains(b, symbol, i, best) ==
  IF i > Len(BalanceKeyOrder) THEN best
  ELSE LET chainId == BalanceKeyOrder[i]
           e == b[chainId][symbol]
       IN IF EntryUsable(e) /\ ~BelowMinimum(symbol, e.balance) /\ Better(best, e.balance)
          THEN ScanChains(b, symbol, i + 1,
                          [symbol |-> symbol, sourceChainId |-> chainId,
                           tokenAddress |-> tokenAddresses(chainId, symbol),
                           balance |-> e.balance])
          ELSE ScanChains(b, symbol, i + 1, best)

\* faulty variant of findTokenBalanceOnChains: one failed read of the symbol
\* hides the symbol on every chain
findTokenBalanceOnChainsErrorBlocks(b, symbol) ==
  IF \E c \in ChainSet : b[c][symbol].error THEN Null ELSE ScanChains(b, symbol, 1, Null)

\* returns the best entry of the symbol, Null when no chain qualifies
findTokenBalanceOnChains(b, symbol) == ScanChains(b, symbol, 1, Null)

WithTarget(found) ==
  [symbol |-> found.symbol, sourceChainId |-> found.sourceChainId,
   tokenAddress |-> found.tokenAddress, balance |-> found.balance,
   targetSymbol |-> TARGET_TOKENS(found.symbol)]

\* faulty variant of findBestTokenToBridge: USDC is looked for first
findBestTokenToBridgeUsdcFirst(b) ==
  LET sourceWETH == findTokenBalanceOnChains(b, "WETH")
      sourceUSDC == findTokenBalanceOnChains(b, "USDC")
  IN IF sourceUSDC # Null THEN WithTarget(sourceUSDC)
     ELSE IF sourceWETH # Null THEN WithTarget(sourceWETH)
     ELSE Null

\* faulty variant of findBestTokenToBridge: a readable WETH balance of any
\* size stops the search for USDC
findBestTokenToBridgeWethBlocks(b) ==
  LET sourceWETH == findTokenBalanceOnChains(b, "WETH")
      sourceUSDC == findTokenBalanceOnChains(b, "USDC")
  IN IF sourceWETH # Null THEN WithTarget(sourceWETH)
     ELSE IF \E c \in ChainSet : EntryUsable(b[c]["WETH"]) THEN Null
     ELSE IF sourceUSDC # Null THEN WithTarget(sourceUSDC)
     ELSE Null

\* WETH first, then USDC; Null stands for the Error the function throws
findBestTokenToBridge(b) ==
  LET sourceWETH == findTokenBalanceOnChains(b, "WETH")
      sourceUSDC == findTokenBalanceOnChains(b, "USDC")
  IN IF sourceWETH # Null THEN WithTarget(sourceWETH)
     ELSE IF sourceUSDC # Null THEN WithTarget(sourceUSDC)
     ELSE Null

----------------------------------------------------------------------------
(* Environment replies *)

\* a call that throws / rejects
Fails == 0 - 1
\* a local that has not been assigned yet
Unread == 0 - 2
\* a transaction that names no gas price of its own
Unspecified == 0 - 3

\* provider.getGasPrice(): at the ceiling and one wei above it
GasPrices == {MAX_GAS_PRICE_WEI, MAX_GAS_PRICE_WEI + 1}

\* getBalance() on the source chain at line 435: just below and at minGasETH (gwei)
EthBalances == {MIN_GAS_ETH - 1, MIN_GAS_ETH}

\* getBalance() on the source chain after a rescue: at and just above minGasETH
UpdatedEthBalances == {MIN_GAS_ETH, MIN_GAS_ETH + 1}

\* getBalance() on Base, around minRequired (gwei)
BaseBalances == {GAS_BRIDGE_AMOUNT + MIN_GAS_ETH - 1, GAS_BRIDGE_AMOUNT + MIN_GAS_ETH}

\* faulty variant of checkGasPrice: a failed query lets the operation through
checkGasPriceFailOpen(reply) ==
  IF reply = Fails
  THEN [isAcceptable |-> TRUE, gasPrice |-> 0]
  ELSE [isAcceptable |-> reply <= MAX_GAS_PRICE_WEI, gasPrice |-> reply]

\* faulty variant of checkGasPrice: every fetched price is accepted
checkGasPriceAny(reply) ==
  IF reply = Fails
  THEN [isAcceptable |-> FALSE, gasPrice |-> 0]
  ELSE [isAcceptable |-> TRUE, gasPrice |-> reply]

\* checkGasPrice: parseFloat(formatUnits(gasPrice, 'gwei')) <= MAX_GAS_PRICE_GWEI.
\* formatUnits is exact and the doubles nearest to k / 1e9 for integer k are
\* ordered like k around 1e8, so the test is the integer test on wei.
\* A failed query yields isAcceptable false and gasPrice 0.
checkGasPrice(reply) ==
  IF reply = Fails
  THEN [isAcceptable |-> FALSE, gasPrice |-> 0]
  ELSE [isAcceptable |-> reply <= MAX_GAS_PRICE_WEI, gasPrice |-> reply]

NoGas == [isAcceptable |-> FALSE, gasPrice |-> Unread, after |-> Unread]

\* stands for "never": the price was not obtained during the cycle
NotFetched == 0 - 4

----------------------------------------------------------------------------
(* Per-cycle locals *)

NoQuote == [toAmount |-> Unread]
NoResult == [success |-> FALSE, toAmount |-> Unread]
NoParams == [amount |-> Unread]
NoResponse == [shape |-> "none"]
NoError == [step |-> "none", message |-> "none"]
NoAllowance == [router |-> Unread, relayer |-> Unread]

StartOp(o) == Append(ops, [op |-> o, st |-> "started"])
FinishOp(st) == [ops EXCEPT ![Len(ops)].st = st]
DoneOp(o, st) == Append(ops, [op |-> o, st |-> st])

\* the result of a checkGasPrice call, with the number of transactions the
\* cycle had submitted when the price was fetched
GasCheck(reply) ==
  LET c == checkGasPrice(reply)
  IN [isAcceptable |-> c.isAcceptable, gasPrice |-> c.gasPrice, after |-> Len(txs)]

\* one submitted transaction: the operation, the chain it is sent on, the price
\* fetched by the gas check before it, the gas price the transaction names;
\* checkedAfter and pricedAfter tell how many transactions had been submitted
\* when the checked price and the named price were obtained (pricedAfter is
\* NotFetched for a price that was not obtained from outside)
Tx(o, chain, checked, price, pricedAfter) ==
  [op |-> o, chain |-> chain, checked |-> checked, gasPrice |-> price,
   checkedAfter |-> lastGas.after, pricedAfter |-> pricedAfter, st |-> "pending"]

\* faulty variant of Settle: a failure undoes the transactions confirmed before it
SettleRollingBack(st) ==
  IF st = "failed"
  THEN [i \in 1..Len(txs) |-> [txs[i] EXCEPT !.st = IF i = Len(txs) THEN st ELSE "undone"]]
  ELSE [txs EXCEPT ![Len(txs)].st = st]

\* faulty variant of Settle: the program goes on without the transaction's fate
SettleUnobserved(st) == txs

\* tx.wait() returned or threw: the fate of the transaction sent last is known
Settle(st) == [txs EXCEPT ![Len(txs)].st = st]

\* no local of executeBridgeCycle is assigned
NoLocals ==
  /\ bestToken = Null
  /\ ethBalance = Unread
  /\ updatedEthBalance = Unread
  /\ baseETHBalance = Unread
  /\ bridgeSuccess = "none"
  /\ updatedStatus = "none"
  /\ lastGas = NoGas
  /\ gasEstimate = Unread
  /\ gasPrice = Unread
  /\ swapQuote = NoQuote
  /\ swapTargetSymbol = "none"
  /\ swapResult = NoResult
  /\ quoteParams = NoParams
  /\ quoteResponse = NoResponse
  /\ ops = <<>>
  /\ txs = <<>>
  /\ outcome = "none"
  /\ error = NoError
  /\ allowanceRead = NoAllowance
  /\ initialStatus = "none"

Init ==
  /\ pc = "start"
  /\ wallets = [i \in 1..NumWallets |-> FALSE]
  /\ validKey = [i \in 1..NumWallets |-> TRUE]
  /\ fatal = "none"
  /\ wallet = 0
  /\ balances = NoSnapshot
  /\ NoLocals

\* a fresh call of executeBridgeCycle: no local is assigned
FreshCycle ==
  /\ bestToken' = Null
  /\ ethBalance' = Unread
  /\ updatedEthBalance' = Unread
  /\ baseETHBalance' = Unread
  /\ bridgeSuccess' = "none"
  /\ updatedStatus' = "none"
  /\ lastGas' = NoGas
  /\ gasEstimate' = Unread
  /\ gasPrice' = Unread
  /\ swapQuote' = NoQuote
  /\ swapTargetSymbol' = "none"
  /\ swapResult' = NoResult
  /\ quoteParams' = NoParams
  /\ quoteResponse' = NoResponse
  /\ ops' = <<>>
  /\ txs' = <<>>
  /\ outcome' = "none"
  /\ error' = NoError
  /\ allowanceRead' = NoAllowance
  /\ initialStatus' = "none"

cycleVars == <<bestToken, ethBalance, updatedEthBalance, baseETHBalance, bridgeSuccess,
               updatedStatus, lastGas, gasEstimate, gasPrice, swapQuote,
               swapTargetSymbol, swapResult, quoteParams, quoteResponse, ops, txs,
               outcome, error, allowanceRead, initialStatus>>

\* the cycle returns (Completed, Skipped): main goes to its sleep
EndCycle(o) ==
  /\ outcome' = o
  /\ pc' = "sleep"
  /\ UNCHANGED error

\* faulty variant of IncludesInsufficientFunds: no message is taken for a lack of funds
IncludesInsufficientFundsNever(message) == FALSE

\* line 710: error.message.includes('insufficient funds').  The messages of the
\* model are whole strings; the one that holds the substring is the message
\* ethers gives an INSUFFICIENT_FUNDS rejection
InsufficientFundsMessage == "insufficient funds for intrinsic transaction cost"
IncludesInsufficientFunds(message) == message = InsufficientFundsMessage

\* messages of a rejected JSON-RPC call that looks at the sender's funds
\* (estimateGas, sendTransaction)
Rejections == {"call rejected", InsufficientFundsMessage}

\* an error thrown outside the inner try: the outer catch of executeBridgeCycle
\* logs and rethrows (line 722-725), main's handler logs (line 292-294) and
\* goes to its sleep
OuterCatch(step, message) ==
  /\ error' = [step |-> step, message |-> message]
  /\ outcome' = "Failed"
  /\ pc' = "sleep"

\* faulty variant of InnerCatch: a failed swap is tried again
InnerCatchRetrying(step, message) ==
  /\ error' = [step |-> step, message |-> message]
  /\ IF step = "swapExec"
     THEN pc' = "swapGas" /\ UNCHANGED outcome
     ELSE /\ outcome' = IF IncludesInsufficientFunds(message) THEN "Skipped" ELSE "Failed"
          /\ pc' = "sleep"

\* an error thrown inside the inner try (line 709-717): a message that includes
\* 'insufficient funds' ends the cycle by return, any other is rethrown to the
\* outer catch and main's handler
InnerCatch(step, message) ==
  /\ error' = [step |-> step, message |-> message]
  /\ outcome' = IF IncludesInsufficientFunds(message) THEN "Skipped" ELSE "Failed"
  /\ pc' = "sleep"

----------------------------------------------------------------------------
(* main *)

\* the errors loadConfig and loadWallets throw
StartupErrors ==
  {"FLASHLOAN_CONTRACT is required in .env file", "Wallet file not found",
   "No wallets found in wallet file", "Invalid wallet data"}

\* line 264-275: loadConfig, loadWallets, initializeProvider.  A throw reaches
\* the outer catch of main, which exits.  loadWallets checks that every record
\* has an address and a non-empty privateKey, not that the key is well formed;
\* the key of an inactive record is never read, so only active records vary
Startup ==
  /\ pc = "start"
  /\ \/ /\ fatal' \in StartupErrors
        /\ pc' = "exit"
        /\ UNCHANGED <<wallets, validKey>>
     \/ /\ wallets' \in [1..NumWallets -> BOOLEAN]
        /\ validKey' \in [1..NumWallets -> BOOLEAN]
        /\ \A i \in 1..NumWallets : ~wallets'[i] => validKey'[i]
        /\ pc' = "pick"
        /\ UNCHANGED fatal
  /\ UNCHANGED <<wallet, balances, cycleVars>>

\* faulty variant of ActiveWallets: the active flag is not looked at
ActiveWalletsAny == 1..NumWallets

\* line 281: wallets.filter(wallet => wallet.active)
ActiveWallets == {i \in 1..NumWallets : wallets[i]}

\* line 286: new ethers.Wallet(selectedWallet.privateKey, provider) throws on a
\* malformed key
WalletConstructs(w) == validKey[w]

\* line 280-291, top of the while loop: no active wallet is fatal; else one
\* active wallet is drawn and its ethers.Wallet is built, outside the try that
\* guards the cycle, so a throw there reaches the outer catch of main; then
\* executeBridgeCycle runs to its first await
PickWallet ==
  /\ pc = "pick"
  /\ IF ActiveWallets = {}
     THEN /\ fatal' = "No active wallets found"
          /\ pc' = "exit"
          /\ UNCHANGED <<wallet, cycleVars>>
     ELSE \E w \in ActiveWallets :
            /\ wallet' = w
            /\ IF WalletConstructs(w)
               THEN /\ FreshCycle
                    /\ pc' = "balances"
                    /\ UNCHANGED fatal
               ELSE /\ fatal' = "invalid private key"
                    /\ pc' = "exit"
                    /\ UNCHANGED cycleVars
  /\ UNCHANGED <<wallets, validKey, balances>>

\* the randomized wait between two cycles
Sleep ==
  /\ pc = "sleep"
  /\ pc' = "pick"
  /\ UNCHANGED <<wallets, validKey, fatal, wallet, balances, cycleVars>>

----------------------------------------------------------------------------
(* executeBridgeCycle: balance check, selection, gas guard *)

\* Steps 1-2: the snapshot arrives and findBestTokenToBridge runs on it; its
\* throw passes the unreachable `if (!bestToken)` and reaches main's handler
CheckBalances ==
  /\ pc = "balances"
  /\ \E b \in CycleSnapshots :
       LET found == findBestTokenToBridge(b)
       IN IF found = Null
          THEN /\ OuterCatch("select", "No available token balance found on any chain")
               /\ UNCHANGED bestToken
          ELSE /\ bestToken' = found
               /\ pc' = "gas0"
               /\ UNCHANGED <<outcome, error>>
  /\ UNCHANGED <<wallets, validKey, fatal, allowanceRead, initialStatus, wallet,
                 balances, ethBalance, updatedEthBalance,
                 baseETHBalance, bridgeSuccess, updatedStatus, lastGas, gasEstimate,
                 gasPrice, swapQuote, swapTargetSymbol, swapResult,
                 quoteParams, quoteResponse, ops, txs>>

\* line 428: gas price check before anything else on the source chain
GasPrecheck ==
  /\ pc = "gas0"
  /\ \E reply \in GasPrices \cup {Fails} :
       /\ lastGas' = GasCheck(reply)
       /\ IF lastGas'.isAcceptable
          THEN pc' = "ethBalance" /\ UNCHANGED <<outcome, error>>
          ELSE EndCycle("Skipped")
  /\ UNCHANGED <<wallets, validKey, fatal, allowanceRead, initialStatus, wallet,
                 balances, bestToken, ethBalance, updatedEthBalance,
                 baseETHBalance, bridgeSuccess, updatedStatus, gasEstimate, gasPrice, swapQuote,
                 swapTargetSymbol, swapResult, quoteParams, quoteResponse, ops, txs>>

\* faulty variant of NeedsRescue: the balance is never found too low
NeedsRescueNever(b) == FALSE

\* line 440: ethBalance.lt(minGasETH)
NeedsRescue(b) == b < MIN_GAS_ETH

\* line 435: native balance of the source chain; below minGasETH the gas rescue
\* is called and runs to its first await
ReadEthBalance ==
  /\ pc = "ethBalance"
  /\ \E reply \in EthBalances \cup {Fails} :
       IF reply = Fails
       THEN /\ OuterCatch("getBalance", "call rejected")
            /\ UNCHANGED ethBalance
       ELSE /\ ethBalance' = reply
            /\ pc' = IF NeedsRescue(reply) THEN "rescueGas1" ELSE "swapQuote"
            /\ UNCHANGED <<outcome, error>>
  /\ UNCHANGED <<wallets, validKey, fatal, allowanceRead, initialStatus, wallet,
                 balances, bestToken, updatedEthBalance,
                 baseETHBalance, bridgeSuccess, updatedStatus, lastGas, gasEstimate,
                 gasPrice, swapQuote, swapTargetSymbol, swapResult,
                 quoteParams, quoteResponse, ops, txs>>

----------------------------------------------------------------------------
(* Bridge quotes of the Relay API *)

\* a chain other than c, for a payload whose embedded chain id is not the origin
OtherChain(c) == IF c = BASE THEN ARBITRUM ELSE BASE

\* responses to a quote request from origin chain c: a well-formed one carries a
\* deposit step whose first item names a chain and possibly a gas price;
\* malformed ones lack the steps, the deposit step or its items
QuoteResponses(c) ==
  {[shape |-> "ok", chainId |-> c, txGasPrice |-> Unspecified],
   [shape |-> "ok", chainId |-> OtherChain(c), txGasPrice |-> MAX_GAS_PRICE_WEI]}
  \cup {[shape |-> sh] : sh \in {"noSteps", "noDeposit", "noItems"}}

\* faulty variant of HasDepositStep: the items of the deposit step are not looked at
HasDepositStepLax(q) == q.shape = "ok" \/ q.shape = "noItems"

\* depositStep && depositStep.items && depositStep.items.length
HasDepositStep(q) == q.shape = "ok"

\* faulty variant of TxChain: the deposit is sent through the caller's connection
TxChainOfWallet(q, connected) == connected

\* executeBridgeTransaction line 448-453: the wallet is reconnected to the
\* provider of txData.chainId, whatever chain the caller connected it to
TxChain(q, connected) == q.chainId

\* executeBridgeTransaction: gasPrice: txData.gasPrice ? txData.gasPrice : 0.15 * 1e9
\* (the options argument the callers pass is not a parameter of the method)
DepositGasPrice(q) ==
  IF q.txGasPrice # Unspecified THEN q.txGasPrice ELSE 150000000

\* the price of the payload came with the quote; the default is a constant
DepositPricedAfter(q) ==
  IF q.txGasPrice # Unspecified THEN q.after ELSE NotFetched

\* a quote response as the program keeps it, with the number of transactions
\* the cycle had submitted when it arrived
Received(r, n) ==
  IF r.shape = "ok"
  THEN [shape |-> "ok", chainId |-> r.chainId, txGasPrice |-> r.txGasPrice, after |-> n]
  ELSE r

----------------------------------------------------------------------------
(* bridgeETHForGas *)

\* faulty variant of RescueFalse: the caller throws instead of returning
RescueFalseEndsFailed ==
  /\ bridgeSuccess' = "false"
  /\ EndCycle("Failed")

\* every `return false` of bridgeETHForGas, its catch included: the caller
\* logs and returns, so the cycle ends Skipped
RescueFalse ==
  /\ bridgeSuccess' = "false"
  /\ EndCycle("Skipped")

rescueFrame == <<wallets, validKey, fatal, wallet, balances, bestToken, ethBalance,
                 updatedEthBalance, gasEstimate, gasPrice, swapQuote, swapTargetSymbol,
                 swapResult, quoteParams, allowanceRead, initialStatus>>

\* line 745: gas price on Base before anything else
RescueGasCheck ==
  /\ pc = "rescueGas1"
  /\ \E reply \in GasPrices \cup {Fails} :
       /\ lastGas' = GasCheck(reply)
       /\ IF lastGas'.isAcceptable
          THEN pc' = "rescueBalance" /\ UNCHANGED <<bridgeSuccess, outcome, error>>
          ELSE RescueFalse
  /\ UNCHANGED <<rescueFrame, updatedStatus, baseETHBalance, quoteResponse, ops, txs>>

\* the native balance of the wallet on Base; when Base is itself the chain
\* that lacks gas this is the account and chain line 435 just read
BaseBalanceReplies ==
  IF bestToken.sourceChainId = BASE THEN {ethBalance} ELSE BaseBalances

\* faulty variant of BaseInsufficient: the balance on Base is not looked at
BaseInsufficientNever(b) == FALSE

\* faulty variant of BaseInsufficient: the gas to send the rescue is forgotten
BaseInsufficientNoFee(b) == b < GAS_BRIDGE_AMOUNT

\* line 756-758: baseETHBalance.lt(GAS_BRIDGE_AMOUNT + 0.0005 ETH)
BaseInsufficient(b) == b < GAS_BRIDGE_AMOUNT + MIN_GAS_ETH

\* line 752-762: Base must hold the rescue amount and the gas to send it
RescueReadBalance ==
  /\ pc = "rescueBalance"
  /\ \E reply \in BaseBalanceReplies \cup {Fails} :
       IF reply = Fails
       THEN RescueFalse /\ UNCHANGED baseETHBalance
       ELSE /\ baseETHBalance' = reply
            /\ IF BaseInsufficient(reply)
               THEN RescueFalse
               ELSE pc' = "rescueGas2" /\ UNCHANGED <<bridgeSuccess, outcome, error>>
  /\ UNCHANGED <<rescueFrame, updatedStatus, lastGas, quoteResponse, ops, txs>>

\* line 792: gas price again before wrapping
RescueWrapGasCheck ==
  /\ pc = "rescueGas2"
  /\ \E reply \in GasPrices \cup {Fails} :
       /\ lastGas' = GasCheck(reply)
       /\ IF lastGas'.isAcceptable
          THEN pc' = "rescueWrap" /\ UNCHANGED <<bridgeSuccess, outcome, error>>
          ELSE RescueFalse
  /\ UNCHANGED <<rescueFrame, updatedStatus, baseETHBalance, quoteResponse, ops, txs>>

\* line 798: wethContract.deposit with gasPrice: wrapGasPrice
RescueWrapSubmit ==
  /\ pc = "rescueWrap"
  /\ \/ /\ RescueFalse
        /\ ops' = DoneOp("wrap", "failed")
        /\ UNCHANGED txs
     \/ /\ txs' = Append(txs, Tx("wrap", BASE, lastGas.gasPrice, lastGas.gasPrice,
                                 lastGas.after))
        /\ ops' = StartOp("wrap")
        /\ pc' = "rescueWrapWait"
        /\ UNCHANGED <<bridgeSuccess, outcome, error>>
  /\ UNCHANGED <<rescueFrame, updatedStatus, baseETHBalance, lastGas, quoteResponse>>

\* line 805: wrapTx.wait()
RescueWrapWait ==
  /\ pc = "rescueWrapWait"
  /\ \/ /\ RescueFalse
        /\ ops' = FinishOp("failed")
        /\ txs' = Settle("failed")
     \/ /\ ops' = FinishOp("ok")
        /\ txs' = Settle("confirmed")
        /\ pc' = "rescueWethBalance"
        /\ UNCHANGED <<bridgeSuccess, outcome, error>>
  /\ UNCHANGED <<rescueFrame, updatedStatus, baseETHBalance, lastGas, quoteResponse>>

\* line 809: balanceOf, logged only; then the quote request is sent
RescueWethBalance ==
  /\ pc = "rescueWethBalance"
  /\ \/ RescueFalse
     \/ /\ pc' = "rescueQuote"
        /\ UNCHANGED <<bridgeSuccess, outcome, error>>
  /\ UNCHANGED <<rescueFrame, updatedStatus, baseETHBalance, lastGas, quoteResponse, ops, txs>>

\* line 815: requestBridgeQuote for WETH on Base to native ETH on the target
RescueQuote ==
  /\ pc = "rescueQuote"
  /\ \/ /\ RescueFalse
        /\ ops' = DoneOp("rescueQuote", "failed")
        /\ UNCHANGED quoteResponse
     \/ /\ \E r \in QuoteResponses(BASE) : quoteResponse' = Received(r, Len(txs))
        /\ ops' = DoneOp("rescueQuote", "ok")
        /\ pc' = "rescueGas3"
        /\ UNCHANGED <<bridgeSuccess, outcome, error>>
  /\ UNCHANGED <<rescueFrame, updatedStatus, baseETHBalance, lastGas, txs>>

\* line 831: gas price before the deposit; then executeBridgeTransaction checks
\* the quote's steps and sends
RescueDepositGasCheck ==
  /\ pc = "rescueGas3"
  /\ \E reply \in GasPrices \cup {Fails} :
       /\ lastGas' = GasCheck(reply)
       /\ IF ~lastGas'.isAcceptable
          THEN RescueFalse /\ UNCHANGED ops
          ELSE IF ~HasDepositStep(quoteResponse)
          THEN RescueFalse /\ ops' = DoneOp("rescueDeposit", "failed")
          ELSE /\ pc' = "rescueDeposit"
               /\ ops' = StartOp("rescueDeposit")
               /\ UNCHANGED <<bridgeSuccess, outcome, error>>
  /\ UNCHANGED <<rescueFrame, updatedStatus, baseETHBalance, quoteResponse, txs>>

\* executeBridgeTransaction line 458: sendTransaction on the payload's chain
RescueDepositSubmit ==
  /\ pc = "rescueDeposit"
  /\ \/ /\ RescueFalse
        /\ ops' = FinishOp("failed")
        /\ UNCHANGED txs
     \/ /\ txs' = Append(txs, Tx("rescueDeposit", TxChain(quoteResponse, BASE),
                                 lastGas.gasPrice, DepositGasPrice(quoteResponse),
                                 DepositPricedAfter(quoteResponse)))
        /\ pc' = "rescueDepositWait"
        /\ UNCHANGED <<bridgeSuccess, outcome, error, ops>>
  /\ UNCHANGED <<rescueFrame, updatedStatus, baseETHBalance, lastGas, quoteResponse>>

\* executeBridgeTransaction line 469: tx.wait()
RescueDepositWait ==
  /\ pc = "rescueDepositWait"
  /\ \/ /\ RescueFalse
        /\ ops' = FinishOp("failed")
        /\ txs' = Settle("failed")
     \/ /\ ops' = FinishOp("ok")
        /\ txs' = Settle("confirmed")
        /\ pc' = "rescueStatus1"
        /\ UNCHANGED <<bridgeSuccess, outcome, error>>
  /\ UNCHANGED <<rescueFrame, updatedStatus, baseETHBalance, lastGas, quoteResponse>>

\* line 842: first status read; a rejected read is caught and reports failure
RescueStatus1 ==
  /\ pc = "rescueStatus1"
  /\ \/ /\ RescueFalse
        /\ ops' = DoneOp("rescueStatus", "failed")
     \/ /\ ops' = DoneOp("rescueStatus", "ok")
        /\ pc' = "rescueSleep"
        /\ UNCHANGED <<bridgeSuccess, outcome, error>>
  /\ UNCHANGED <<rescueFrame, updatedStatus, baseETHBalance, lastGas, quoteResponse, txs>>

\* line 857: the fixed 60 s wait
RescueSleep ==
  /\ pc = "rescueSleep"
  /\ pc' = "rescueStatus2"
  /\ UNCHANGED <<rescueFrame, updatedStatus, baseETHBalance, bridgeSuccess, lastGas, quoteResponse,
                 ops, txs, outcome, error>>

\* values of the status of a rescue deposit after the wait: arrived or not yet
RescueStatuses == {"completed", "pending"}

\* faulty variant of RescueReport: only an arrived deposit counts as a success
RescueReportCompletedOnly(status) == status = "completed"

\* line 866-873: return true when the status is 'completed', and return true
\* 'anyway' for every other status
RescueReport(status) == IF status = "completed" THEN TRUE ELSE TRUE

\* line 861-873: second status read, no further wait. On return the quote of
\* the rescue, a local of bridgeETHForGas, is gone
RescueStatus2 ==
  /\ pc = "rescueStatus2"
  /\ \/ /\ RescueFalse
        /\ ops' = DoneOp("rescueStatus", "failed")
        /\ UNCHANGED <<quoteResponse, updatedStatus>>
     \/ \E status \in RescueStatuses :
          /\ ops' = DoneOp("rescueStatus", "ok")
          /\ updatedStatus' = status
          /\ IF RescueReport(status)
             THEN /\ bridgeSuccess' = "true"
                  /\ quoteResponse' = NoResponse
                  /\ pc' = "ethBalance2"
                  /\ UNCHANGED <<outcome, error>>
             ELSE /\ RescueFalse
                  /\ UNCHANGED quoteResponse
  /\ UNCHANGED <<rescueFrame, baseETHBalance, lastGas, txs>>

\* line 454: updatedEthBalance.gt(minGasETH)
UpdatedSufficient(b) == b > MIN_GAS_ETH

\* line 451-461: the balance is read again; it must exceed minGasETH
ReReadEthBalance ==
  /\ pc = "ethBalance2"
  /\ \E reply \in UpdatedEthBalances \cup {Fails} :
       IF reply = Fails
       THEN /\ OuterCatch("getBalance", "call rejected")
            /\ UNCHANGED updatedEthBalance
       ELSE /\ updatedEthBalance' = reply
            /\ IF UpdatedSufficient(reply)
               THEN pc' = "swapQuote" /\ UNCHANGED <<outcome, error>>
               ELSE EndCycle("Skipped")
  /\ UNCHANGED <<wallets, validKey, fatal, allowanceRead, initialStatus, wallet,
                 balances, bestToken, ethBalance,
                 baseETHBalance, bridgeSuccess, updatedStatus, lastGas, gasEstimate,
                 gasPrice, swapQuote, swapTargetSymbol, swapResult,
                 quoteParams, quoteResponse, ops, txs>>

----------------------------------------------------------------------------
(* Swap quote, approval and pre-flight checks *)

ROUTER == "router"
RELAYER == "relayer"
Absent == "absent"

\* expected output amounts a swap quote may state
SwapOutputs == {2000000, 3000000}

\* gas estimates of the swap, in thousands of gas
GasEstimates == {200, 5000}

\* allowance(owner, spender) as read by approveToken: none, or the smallest
\* amount that is not zero
Allowances == {0, 1}

\* responses of the 1inch API: the tx descriptor may be missing or lack `to` or
\* `data`; the output amount comes as dstAmount (mapped to toAmount by getQuote),
\* as amount only, or not at all; the output token address may be missing, the
\* zero address, the native placeholder or the registry address
SwapQuoteReplies(chainId, target) ==
  [tx : {"ok", "none", "noTo", "noData"},
   amountField : {"dstAmount", "amount", "none"},
   toAmount : SwapOutputs,
   dstAddr : {Absent, ZERO_ADDRESS, NATIVE_PLACEHOLDER, tokenAddresses(chainId, target)}]

\* the throws of lines 486-547 on a response that was received
QuoteUsable(r) ==
  /\ r.tx # "none"
  /\ r.amountField # "none"
  /\ r.tx # "noTo"

\* the message of the first throw of lines 486-547 an unusable response meets
QuoteError(r) ==
  IF r.tx = "none" THEN "Invalid swap quote response: Missing tx field"
  ELSE IF r.amountField = "none"
  THEN "Invalid swap quote response: Missing destination amount"
  ELSE "Failed to get 1inch router address"

\* faulty variant of KeptQuote: half of the balance is swapped
KeptQuoteHalved(r, amount) ==
  [amount |-> amount \div 2, toAmount |-> r.toAmount, txTo |-> ROUTER,
   txData |-> r.tx # "noData", dstAddr |-> r.dstAddr]

\* what the cycle and executeSwap read from a usable quote: toAmount || dstAmount
\* || amount, the router, whether tx.data is there, the stated output address
KeptQuote(r, amount) ==
  [amount |-> amount, toAmount |-> r.toAmount, txTo |-> ROUTER,
   txData |-> r.tx # "noData", dstAddr |-> r.dstAddr]

\* ethBalance.lt(totalCost), totalCost = gasEstimate * gasPrice (+ tx.value, 0
\* for a token swap).  b in gwei, gasK in thousands of gas, p in wei:
\*   b * 1e9 < gasK * 1000 * p  <=>  b < ceil(gasK * p / 1e6)
InsufficientForCost(b, gasK, p) ==
  LET q == p \div 1000000
      r == p % 1000000
  IN b < gasK * q + ((gasK * r + 999999) \div 1000000)

cycleFrame ==
  <<wallets, validKey, fatal, wallet, balances, bestToken, ethBalance,
    updatedEthBalance, baseETHBalance, bridgeSuccess, updatedStatus>>

\* Steps 5-7 up to the gas check: the quote is requested for 100% of the
\* candidate's balance and validated
SwapQuoteStep ==
  /\ pc = "swapQuote"
  /\ swapTargetSymbol' = TARGET_TOKENS(bestToken.symbol)
  /\ \/ /\ ops' = DoneOp("swapQuote", "failed")
        /\ OuterCatch("swapQuote", "Failed to get 1inch swap quote")
        /\ UNCHANGED swapQuote
     \/ \E r \in SwapQuoteReplies(bestToken.sourceChainId, swapTargetSymbol') :
          IF QuoteUsable(r)
          THEN /\ swapQuote' = KeptQuote(r, bestToken.balance)
               /\ ops' = DoneOp("swapQuote", "ok")
               /\ pc' = "gas1"
               /\ UNCHANGED <<outcome, error>>
          ELSE /\ ops' = DoneOp("swapQuote", "failed")
               /\ OuterCatch("swapQuote", QuoteError(r))
               /\ UNCHANGED swapQuote
  /\ UNCHANGED <<cycleFrame, allowanceRead, initialStatus, lastGas, gasEstimate,
                 gasPrice, swapResult, quoteParams,
                 quoteResponse, txs>>

\* line 550: gas price before the router approval; then approveToken is called
SwapApproveGasCheck ==
  /\ pc = "gas1"
  /\ \E reply \in GasPrices \cup {Fails} :
       /\ lastGas' = GasCheck(reply)
       /\ IF lastGas'.isAcceptable
          THEN /\ ops' = StartOp("swapApprove")
               /\ pc' = "swapAllowance"
               /\ UNCHANGED <<outcome, error>>
          ELSE /\ EndCycle("Skipped")
               /\ UNCHANGED ops
  /\ UNCHANGED <<cycleFrame, allowanceRead, initialStatus, gasEstimate, gasPrice,
                 swapQuote, swapTargetSymbol,
                 swapResult, quoteParams, quoteResponse, txs>>

\* approveToken line 53: maxApproval = MaxUint256; here the largest allowance
MaxApproval == 2

\* faulty variant of AlreadyApproved: only an unlimited allowance counts
AlreadyApprovedUnlimitedOnly(allowance) == allowance = MaxApproval

\* faulty variant of AlreadyApproved: the allowance read is not looked at
AlreadyApprovedNever(allowance) == FALSE

\* approveToken line 47: currentAllowance.gt(Zero) returns true without a transaction
AlreadyApproved(allowance) == allowance > 0

\* line 562-564: approveToken returned false for the router
RouterApprovalFailed == "Failed to approve token for 1inch router"

\* line 671-673: approveToken returned false for the relayer
RelayerApprovalFailed == "Failed to approve token for relayer"

\* approveToken line 43-50 for the router
SwapAllowance ==
  /\ pc = "swapAllowance"
  /\ \E reply \in Allowances \cup {Fails} :
       IF reply = Fails
       THEN /\ ops' = FinishOp("failed")
            /\ OuterCatch("swapApprove", RouterApprovalFailed)
            /\ UNCHANGED allowanceRead
       ELSE /\ allowanceRead' = [allowanceRead EXCEPT !.router = reply]
            /\ IF AlreadyApproved(reply)
               THEN /\ ops' = FinishOp("ok")
                    /\ pc' = "estimateGas"
                    /\ UNCHANGED <<outcome, error>>
               ELSE /\ pc' = "swapApproveSubmit"
                    /\ UNCHANGED <<ops, outcome, error>>
  /\ UNCHANGED <<cycleFrame, initialStatus, lastGas, gasEstimate, gasPrice, swapQuote,
                 swapTargetSymbol,
                 swapResult, quoteParams, quoteResponse, txs>>

\* approveToken line 62: approve(spender, MaxUint256) with gasLimit only
SwapApproveSubmit ==
  /\ pc = "swapApproveSubmit"
  /\ \/ /\ ops' = FinishOp("failed")
        /\ OuterCatch("swapApprove", RouterApprovalFailed)
        /\ UNCHANGED txs
     \/ /\ txs' = Append(txs, Tx("swapApprove", bestToken.sourceChainId,
                                 lastGas.gasPrice, Unspecified, NotFetched))
        /\ pc' = "swapApproveWait"
        /\ UNCHANGED <<ops, outcome, error>>
  /\ UNCHANGED <<cycleFrame, allowanceRead, initialStatus, lastGas, gasEstimate,
                 gasPrice, swapQuote, swapTargetSymbol,
                 swapResult, quoteParams, quoteResponse>>

\* approveToken line 66: tx.wait()
SwapApproveWait ==
  /\ pc = "swapApproveWait"
  /\ \/ /\ ops' = FinishOp("failed")
        /\ txs' = Settle("failed")
        /\ OuterCatch("swapApprove", RouterApprovalFailed)
     \/ /\ ops' = FinishOp("ok")
        /\ txs' = Settle("confirmed")
        /\ pc' = "estimateGas"
        /\ UNCHANGED <<outcome, error>>
  /\ UNCHANGED <<cycleFrame, allowanceRead, initialStatus, lastGas, gasEstimate,
                 gasPrice, swapQuote, swapTargetSymbol,
                 swapResult, quoteParams, quoteResponse>>

\* line 571: estimateGas of the swap, inside the inner try
EstimateGas ==
  /\ pc = "estimateGas"
  /\ \/ /\ \E message \in Rejections : InnerCatch("estimateGas", message)
        /\ UNCHANGED gasEstimate
     \/ /\ gasEstimate' \in GasEstimates
        /\ pc' = "getGasPrice"
        /\ UNCHANGED <<outcome, error>>
  /\ UNCHANGED <<cycleFrame, allowanceRead, initialStatus, lastGas, gasPrice, swapQuote,
                 swapTargetSymbol,
                 swapResult, quoteParams, quoteResponse, ops, txs>>

\* faulty variant of PreflightBalance: the balance read again after a rescue
PreflightBalanceReRead ==
  IF updatedEthBalance # Unread THEN updatedEthBalance ELSE ethBalance

\* line 586: ethBalance.lt(totalCost) names the constant of line 435, the
\* balance read at the start of the gas guard
PreflightBalance == ethBalance

\* line 580-595: the price for the cost estimate, the affordability test on the
\* balance read at line 435, then executeSwap is called
PreflightGasPrice ==
  /\ pc = "getGasPrice"
  /\ \/ /\ InnerCatch("getGasPrice", "call rejected")
        /\ UNCHANGED <<gasPrice, ops>>
     \/ \E reply \in GasPrices :
          /\ gasPrice' = reply
          /\ IF InsufficientForCost(PreflightBalance, gasEstimate, reply)
             THEN /\ InnerCatch("preflight", "Insufficient ETH for transaction")
                  /\ UNCHANGED ops
             ELSE /\ ops' = StartOp("swapExec")
                  /\ pc' = "swapGas"
                  /\ UNCHANGED <<outcome, error>>
  /\ UNCHANGED <<cycleFrame, allowanceRead, initialStatus, lastGas, gasEstimate,
                 swapQuote, swapTargetSymbol,
                 swapResult, quoteParams, quoteResponse, txs>>

----------------------------------------------------------------------------
(* executeSwap *)

\* executeSwap line 194: gasPrice: currentGwei * 1e9.  For the prices the check
\* lets through the double product is the wei price itself
SwapTxGasPrice(checked) == checked.gasPrice

\* executeSwap line 169-172: the result when its gas check refuses
HighGasResult == [success |-> FALSE, toAmount |-> Unread, error |-> "high_gas_price"]

\* line 597-599: the error the cycle throws for any unsuccessful executeSwap
SwapFailedMessage == "1inch swap failed"

\* executeSwap line 168-208: its own gas check, then the tx fields; a refusal
\* or a throw makes it return success false, which the cycle rethrows as
\* '1inch swap failed'
SwapGasCheck ==
  /\ pc = "swapGas"
  /\ \E reply \in GasPrices \cup {Fails} :
       /\ lastGas' = GasCheck(reply)
       /\ IF ~lastGas'.isAcceptable
          THEN /\ swapResult' = HighGasResult
               /\ ops' = FinishOp("failed")
               /\ InnerCatch("swapExec", SwapFailedMessage)
          ELSE IF ~swapQuote.txData
          THEN /\ ops' = FinishOp("failed")
               /\ InnerCatch("swapExec", SwapFailedMessage)
               /\ UNCHANGED swapResult
          ELSE /\ pc' = "swapSubmit"
               /\ UNCHANGED <<swapResult, ops, outcome, error>>
  /\ UNCHANGED <<cycleFrame, allowanceRead, initialStatus, gasEstimate, gasPrice, swapQuote,
                 swapTargetSymbol, quoteParams, quoteResponse, txs>>

\* executeSwap line 211: wallet.sendTransaction(txParams)
SwapSubmit ==
  /\ pc = "swapSubmit"
  /\ \/ /\ ops' = FinishOp("failed")
        /\ InnerCatch("swapExec", SwapFailedMessage)
        /\ UNCHANGED txs
     \/ /\ txs' = Append(txs, Tx("swapExec", bestToken.sourceChainId,
                                 lastGas.gasPrice, SwapTxGasPrice(lastGas),
                                 lastGas.after))
        /\ pc' = "swapWait"
        /\ UNCHANGED <<ops, outcome, error>>
  /\ UNCHANGED <<cycleFrame, allowanceRead, initialStatus, lastGas, gasEstimate,
                 gasPrice, swapQuote, swapTargetSymbol,
                 swapResult, quoteParams, quoteResponse>>

\* executeSwap line 241: toToken.address with its fallbacks, ending at the zero address
SwapResultAddress(q) == IF q.dstAddr = Absent THEN ZERO_ADDRESS ELSE q.dstAddr

\* faulty variant of BridgedAddress: the output address is taken as it comes
BridgedAddressAsIs(address, chainId, target) == address

\* line 608-617: a zero output address is replaced by the registry address of
\* the swap target on the source chain
BridgedAddress(address, chainId, target) ==
  IF address = ZERO_ADDRESS THEN tokenAddresses(chainId, target) ELSE address

\* faulty variant of DestinationChains: the source chain is not filtered out
DestinationChainsAny(sourceChainId) == ChainSet

\* findDestinationChain: any supported chain but the source
DestinationChains(sourceChainId) == {c \in ChainSet : c # sourceChainId}

\* faulty variant of DestSymbol: the swapped-out symbol is asked for
DestSymbolSame(target) == target

\* line 621: destSymbol = TARGET_TOKENS[swapTargetSymbol]
DestSymbol(target) == TARGET_TOKENS(target)

\* requestBridgeQuote line 387-412: the destination currency is the explicit
\* one, else the registry address of targetSymbol, else that of symbol.  The
\* record is the request sent to the Relay API, with the two symbols the
\* method logs beside it
\* `!v` is false: the property is there and is not the empty string
Given(v) == v # Absent /\ v # ""

\* faulty variant of requestBridgeQuote: targetSymbol is looked at first
requestBridgeQuoteTargetFirst(params) ==
  [originChainId |-> params.originChainId,
   destinationChainId |-> params.destinationChainId,
   originCurrency |-> params.tokenAddress,
   destinationCurrency |->
     IF Given(params.targetSymbol)
     THEN tokenAddresses(params.destinationChainId, params.targetSymbol)
     ELSE IF Given(params.destinationCurrency) THEN params.destinationCurrency
          ELSE tokenAddresses(params.destinationChainId, params.symbol),
   amount |-> params.amount,
   symbol |-> params.symbol,
   targetSymbol |-> params.targetSymbol]

requestBridgeQuote(params) ==
  [originChainId |-> params.originChainId,
   destinationChainId |-> params.destinationChainId,
   originCurrency |-> params.tokenAddress,
   destinationCurrency |->
     IF Given(params.destinationCurrency) THEN params.destinationCurrency
     ELSE IF Given(params.targetSymbol)
          THEN tokenAddresses(params.destinationChainId, params.targetSymbol)
          ELSE tokenAddresses(params.destinationChainId, params.symbol),
   amount |-> params.amount,
   symbol |-> params.symbol,
   targetSymbol |-> params.targetSymbol]

\* line 627-638: the parameters the cycle passes to requestBridgeQuote
CycleQuoteParams(source, dest, address, target, amount) ==
  [originChainId |-> source, destinationChainId |-> dest, tokenAddress |-> address,
   symbol |-> target, amount |-> amount, targetSymbol |-> DestSymbol(target),
   destinationCurrency |-> tokenAddresses(dest, DestSymbol(target))]

\* executeSwap line 217-256: the result for a confirmed and for a reverted swap
executeSwapResult(confirmed, q) ==
  IF confirmed
  THEN [success |-> TRUE, toAmount |-> q.toAmount, rawAddress |-> SwapResultAddress(q)]
  ELSE [success |-> FALSE, toAmount |-> Unread, rawAddress |-> SwapResultAddress(q)]

\* faulty variant of SwapFailed: the result of executeSwap is not looked at
SwapFailedNever(result) == FALSE

\* line 597: if (!swapResult.success) throw
SwapFailed(result) == ~result.success

\* executeSwap line 217-251 and cycle line 597-627: the swap is confirmed or
\* reverted; after a success the destination chain is drawn and the bridge
\* quote is requested
SwapWait ==
  /\ pc = "swapWait"
  /\ \E confirmed \in BOOLEAN :
       /\ txs' = Settle(IF confirmed THEN "confirmed" ELSE "failed")
       /\ LET result == executeSwapResult(confirmed, swapQuote)
              st == IF result.success THEN "ok" ELSE "failed"
          IN IF SwapFailed(result)
             THEN /\ ops' = FinishOp(st)
                  /\ InnerCatch("swapExec", SwapFailedMessage)
                  /\ UNCHANGED <<swapResult, quoteParams>>
             ELSE \E dest \in DestinationChains(bestToken.sourceChainId) :
                    /\ swapResult' =
                         [success |-> result.success, toAmount |-> result.toAmount,
                          rawAddress |-> result.rawAddress,
                          address |-> BridgedAddress(result.rawAddress,
                                                     bestToken.sourceChainId,
                                                     swapTargetSymbol)]
                    /\ quoteParams' = requestBridgeQuote(
                         CycleQuoteParams(bestToken.sourceChainId, dest,
                                          swapResult'.address, swapTargetSymbol,
                                          swapResult'.toAmount))
                    /\ ops' = Append(FinishOp(st), [op |-> "bridgeQuote", st |-> "started"])
                    /\ pc' = "bridgeQuote"
                    /\ UNCHANGED <<outcome, error>>
  /\ UNCHANGED <<cycleFrame, allowanceRead, initialStatus, lastGas, gasEstimate,
                 gasPrice, swapQuote, swapTargetSymbol,
                 quoteResponse>>

----------------------------------------------------------------------------
(* Bridge quote, approval, deposit, status *)

\* line 643-647: a response without `steps` makes steps.find throw a
\* TypeError; one without a deposit step or without items meets the throw of
\* line 646
MalformedQuoteError(q) ==
  IF q.shape = "noSteps" THEN "Cannot read properties of undefined (reading 'find')"
  ELSE "Invalid quote response: No deposit step found"

\* faulty variant of NeedsBridgeApproval: the relayer is approved for every address
NeedsBridgeApprovalAlways(address) == TRUE

\* line 654: swapResult.toToken.address !== '0xEeee...EEeE'
NeedsBridgeApproval(address) == address # NATIVE_PLACEHOLDER

\* line 627-656: the quote arrives (the request is no longer in flight);
\* without a deposit step the cycle throws.
\* The relayer is approved unless the bridged token is the native placeholder
BridgeQuote ==
  /\ pc = "bridgeQuote"
  /\ \/ /\ ops' = FinishOp("failed")
        /\ InnerCatch("bridgeQuote", "Request failed")
        /\ UNCHANGED <<quoteResponse, quoteParams>>
     \/ \E r \in QuoteResponses(bestToken.sourceChainId) :
          /\ quoteResponse' = Received(r, Len(txs))
          /\ quoteParams' = NoParams
          /\ ops' = FinishOp("ok")
          /\ IF ~HasDepositStep(r)
             THEN InnerCatch("bridgeQuote", MalformedQuoteError(r))
             ELSE /\ pc' = IF NeedsBridgeApproval(swapResult.address)
                           THEN "bridgeApproveGas" ELSE "bridgeGas"
                  /\ UNCHANGED <<outcome, error>>
  /\ UNCHANGED <<cycleFrame, allowanceRead, initialStatus, lastGas, gasEstimate, gasPrice,
                 swapQuote, swapTargetSymbol, swapResult, txs>>

\* line 658: gas price before the relayer approval; then approveToken is called
BridgeApproveGasCheck ==
  /\ pc = "bridgeApproveGas"
  /\ \E reply \in GasPrices \cup {Fails} :
       /\ lastGas' = GasCheck(reply)
       /\ IF lastGas'.isAcceptable
          THEN /\ ops' = StartOp("bridgeApprove")
               /\ pc' = "bridgeAllowance"
               /\ UNCHANGED <<outcome, error>>
          ELSE /\ EndCycle("Skipped")
               /\ UNCHANGED ops
  /\ UNCHANGED <<cycleFrame, allowanceRead, initialStatus, gasEstimate, gasPrice, swapQuote,
                 swapTargetSymbol, swapResult, quoteParams, quoteResponse, txs>>

\* approveToken line 43-50 for the relayer
BridgeAllowance ==
  /\ pc = "bridgeAllowance"
  /\ \E reply \in Allowances \cup {Fails} :
       IF reply = Fails
       THEN /\ ops' = FinishOp("failed")
            /\ InnerCatch("bridgeApprove", RelayerApprovalFailed)
            /\ UNCHANGED allowanceRead
       ELSE /\ allowanceRead' = [allowanceRead EXCEPT !.relayer = reply]
            /\ IF AlreadyApproved(reply)
               THEN /\ ops' = FinishOp("ok")
                    /\ pc' = "bridgeGas"
                    /\ UNCHANGED <<outcome, error>>
               ELSE /\ pc' = "bridgeApproveSubmit"
                    /\ UNCHANGED <<ops, outcome, error>>
  /\ UNCHANGED <<cycleFrame, initialStatus, lastGas, gasEstimate, gasPrice, swapQuote,
                 swapTargetSymbol, swapResult, quoteParams, quoteResponse, txs>>

\* approveToken line 62 for the relayer
BridgeApproveSubmit ==
  /\ pc = "bridgeApproveSubmit"
  /\ \/ /\ ops' = FinishOp("failed")
        /\ InnerCatch("bridgeApprove", RelayerApprovalFailed)
        /\ UNCHANGED txs
     \/ /\ txs' = Append(txs, Tx("bridgeApprove", bestToken.sourceChainId,
                                 lastGas.gasPrice, Unspecified, NotFetched))
        /\ pc' = "bridgeApproveWait"
        /\ UNCHANGED <<ops, outcome, error>>
  /\ UNCHANGED <<cycleFrame, allowanceRead, initialStatus, lastGas, gasEstimate, gasPrice,
                 swapQuote, swapTargetSymbol, swapResult, quoteParams, quoteResponse>>

\* approveToken line 66 for the relayer
BridgeApproveWait ==
  /\ pc = "bridgeApproveWait"
  /\ \/ /\ ops' = FinishOp("failed")
        /\ txs' = Settle("failed")
        /\ InnerCatch("bridgeApprove", RelayerApprovalFailed)
     \/ /\ ops' = FinishOp("ok")
        /\ txs' = Settle("confirmed")
        /\ pc' = "bridgeGas"
        /\ UNCHANGED <<outcome, error>>
  /\ UNCHANGED <<cycleFrame, allowanceRead, initialStatus, lastGas, gasEstimate, gasPrice,
                 swapQuote, swapTargetSymbol, swapResult, quoteParams, quoteResponse>>

\* line 679: gas price before the deposit; then executeBridgeTransaction runs
\* to its sendTransaction
BridgeGasCheck ==
  /\ pc = "bridgeGas"
  /\ \E reply \in GasPrices \cup {Fails} :
       /\ lastGas' = GasCheck(reply)
       /\ IF lastGas'.isAcceptable
          THEN /\ ops' = StartOp("bridgeDeposit")
               /\ pc' = "bridgeSubmit"
               /\ UNCHANGED <<outcome, error>>
          ELSE /\ EndCycle("Skipped")
               /\ UNCHANGED ops
  /\ UNCHANGED <<cycleFrame, allowanceRead, initialStatus, gasEstimate, gasPrice, swapQuote,
                 swapTargetSymbol, swapResult, quoteParams, quoteResponse, txs>>

\* executeBridgeTransaction line 458: the deposit is sent on the payload's
\* chain; a rejected send is rethrown to the cycle's inner catch
BridgeSubmit ==
  /\ pc = "bridgeSubmit"
  /\ \/ /\ ops' = FinishOp("failed")
        /\ \E message \in Rejections : InnerCatch("bridgeDeposit", message)
        /\ UNCHANGED txs
     \/ /\ txs' = Append(txs, Tx("bridgeDeposit",
                                 TxChain(quoteResponse, bestToken.sourceChainId),
                                 lastGas.gasPrice, DepositGasPrice(quoteResponse),
                                 DepositPricedAfter(quoteResponse)))
        /\ pc' = "bridgeWait"
        /\ UNCHANGED <<ops, outcome, error>>
  /\ UNCHANGED <<cycleFrame, allowanceRead, initialStatus, lastGas, gasEstimate, gasPrice,
                 swapQuote, swapTargetSymbol, swapResult, quoteParams, quoteResponse>>

\* executeBridgeTransaction line 469: tx.wait() throws for a reverted deposit;
\* after a confirmation the status read is sent
BridgeWait ==
  /\ pc = "bridgeWait"
  /\ \/ /\ ops' = FinishOp("failed")
        /\ txs' = Settle("failed")
        /\ InnerCatch("bridgeDeposit", "transaction failed")
     \/ /\ ops' = Append(FinishOp("ok"), [op |-> "statusPoll", st |-> "started"])
        /\ txs' = Settle("confirmed")
        /\ pc' = "status"
        /\ UNCHANGED <<outcome, error>>
  /\ UNCHANGED <<cycleFrame, allowanceRead, initialStatus, lastGas, gasEstimate, gasPrice,
                 swapQuote, swapTargetSymbol, swapResult, quoteParams, quoteResponse>>

\* values of response.data.status: the three the cycle names and any other
Statuses == {"pending", "created", "completed", "refunded"}

\* faulty variant of StatusOutcome: only a terminal status ends the cycle well
StatusOutcomeTerminalOnly(status) ==
  IF status = "completed" THEN "Completed" ELSE "Failed"

\* line 700-706: each of the three branches only logs; the cycle then returns
StatusOutcome(status) ==
  IF status = "pending" \/ status = "created" THEN "Completed"
  ELSE IF status = "completed" THEN "Completed"
  ELSE "Completed"

\* line 689-708: one status read; the cycle returns whatever the status is
StatusPoll ==
  /\ pc = "status"
  /\ \/ /\ ops' = FinishOp("failed")
        /\ InnerCatch("statusPoll", "Request failed")
        /\ UNCHANGED initialStatus
     \/ \E status \in Statuses :
          /\ initialStatus' = status
          /\ ops' = FinishOp("ok")
          /\ EndCycle(StatusOutcome(status))
  /\ UNCHANGED <<cycleFrame, allowanceRead, lastGas, gasEstimate, gasPrice, swapQuote,
                 swapTargetSymbol, swapResult, quoteParams, quoteResponse, txs>>

----------------------------------------------------------------------------
(* Specifications *)

Rescue ==
  \/ RescueGasCheck \/ RescueReadBalance \/ RescueWrapGasCheck \/ RescueWrapSubmit
  \/ RescueWrapWait \/ RescueWethBalance \/ RescueQuote \/ RescueDepositGasCheck
  \/ RescueDepositSubmit \/ RescueDepositWait \/ RescueStatus1 \/ RescueSleep
  \/ RescueStatus2

Next ==
  \/ Startup \/ PickWallet \/ Sleep
  \/ CheckBalances \/ GasPrecheck \/ ReadEthBalance \/ Rescue \/ ReReadEthBalance
  \/ SwapQuoteStep \/ SwapApproveGasCheck \/ SwapAllowance \/ SwapApproveSubmit
  \/ SwapApproveWait \/ EstimateGas \/ PreflightGasPrice
  \/ SwapGasCheck \/ SwapSubmit \/ SwapWait
  \/ BridgeQuote \/ BridgeApproveGasCheck \/ BridgeAllowance \/ BridgeApproveSubmit
  \/ BridgeApproveWait \/ BridgeGasCheck \/ BridgeSubmit \/ BridgeWait \/ StatusPoll

Spec == Init /\ [][Next]_vars

\* every await of the program is an external call or a timer; when each of them
\* eventually returns, the step that follows it is eventually taken
SpecLive == Spec /\ WF_vars(Next)

\* the selection as a function of the snapshot: every snapshot of the bounded
\* domain is an initial state, the one step applies findBestTokenToBridge
SelectInit ==
  /\ pc = "select"
  /\ wallets = [i \in 1..NumWallets |-> FALSE]
  /\ validKey = [i \in 1..NumWallets |-> TRUE]
  /\ fatal = "none"
  /\ wallet = 0
  /\ balances \in Snapshots
  /\ NoLocals

SelectStep ==
  /\ pc = "select"
  /\ bestToken' = findBestTokenToBridge(balances)
  /\ pc' = "selected"
  /\ UNCHANGED <<wallets, validKey, fatal, allowanceRead, initialStatus, wallet,
                 balances, ethBalance, updatedEthBalance,
                 baseETHBalance, bridgeSuccess, updatedStatus, lastGas, gasEstimate,
                 gasPrice, swapQuote, swapTargetSymbol, swapResult,
                 quoteParams, quoteResponse, ops, txs,
                 outcome, error>>

SpecSelect == SelectInit /\ [][SelectStep]_vars

----------------------------------------------------------------------------
(* requestBridgeQuote, for every shape of its argument *)

\* arguments of requestBridgeQuote: destinationCurrency and targetSymbol may be
\* left out or empty; the explicit currency is the native one (as the rescue
\* passes) or a registry address, and the target may differ from the symbol
QuoteCalls ==
  {[originChainId |-> o, destinationChainId |-> d, tokenAddress |-> tokenAddresses(o, y),
    symbol |-> y, amount |-> MIN_WETH, targetSymbol |-> t, destinationCurrency |-> dc] :
     o \in {BASE, LINEA}, d \in {ARBITRUM, OPTIMISM}, y \in {"USDC", "WETH"},
     t \in {Absent, "", "USDC", "WETH"},
     dc \in {Absent, "", ZERO_ADDRESS, tokenAddresses(ARBITRUM, "USDC")}}

\* a call of requestBridgeQuote is logged with its argument
QuoteInit ==
  /\ pc = "quoteCall"
  /\ wallets = [i \in 1..NumWallets |-> FALSE]
  /\ validKey = [i \in 1..NumWallets |-> TRUE]
  /\ fatal = "none"
  /\ wallet = 0
  /\ balances = NoSnapshot
  /\ bestToken = Null
  /\ ethBalance = Unread
  /\ updatedEthBalance = Unread
  /\ baseETHBalance = Unread
  /\ bridgeSuccess = "none"
  /\ updatedStatus = "none"
  /\ lastGas = NoGas
  /\ gasEstimate = Unread
  /\ gasPrice = Unread
  /\ swapQuote = NoQuote
  /\ swapTargetSymbol = "none"
  /\ swapResult = NoResult
  /\ quoteParams = NoParams
  /\ quoteResponse = NoResponse
  /\ \E p \in QuoteCalls : ops = <<[op |-> "bridgeQuote", st |-> "started", params |-> p]>>
  /\ txs = <<>>
  /\ outcome = "none"
  /\ error = NoError
  /\ allowanceRead = NoAllowance
  /\ initialStatus = "none"

quoteFrame == <<wallets, validKey, fatal, wallet, balances, bestToken, ethBalance,
                updatedEthBalance, baseETHBalance, bridgeSuccess, updatedStatus,
                lastGas, gasEstimate, gasPrice, swapQuote, swapTargetSymbol,
                swapResult, txs, outcome, error, allowanceRead, initialStatus>>

\* line 387-414: the destination currency is resolved, the request is built
\* and relayService.requestQuote is called
SendQuoteRequest ==
  /\ pc = "quoteCall"
  /\ quoteParams' = requestBridgeQuote(ops[1].params)
  /\ pc' = "quoteSent"
  /\ UNCHANGED <<quoteFrame, quoteResponse, ops>>

\* line 414-424: response.data is returned, or the error is logged and rethrown
QuoteReply ==
  /\ pc = "quoteSent"
  /\ \/ /\ \E r \in QuoteResponses(quoteParams.originChainId) : quoteResponse' = r
        /\ ops' = FinishOp("ok")
        /\ pc' = "returned"
     \/ /\ ops' = FinishOp("failed")
        /\ pc' = "thrown"
        /\ UNCHANGED quoteResponse
  /\ UNCHANGED <<quoteFrame, quoteParams>>

QuoteNext == SendQuoteRequest \/ QuoteReply

SpecQuote == QuoteInit /\ [][QuoteNext]_vars

----------------------------------------------------------------------------
(* The wait between two cycles, for every configuration *)

\* values parseInt gives for REPEAT_INTERVAL_MIN and REPEAT_INTERVAL_MAX, in
\* minutes: the defaults 1 and 2 among them, zero and a negative number too
IntervalMinutes == (0 - 1)..2

\* values of Math.random(), in [0, 1): num/den, or 1 - num/den when fromOne
\* is true; the denominators are powers of two, so that the products of
\* line 299 are exact in floating point as they are here
Randoms ==
  {[num |-> n, den |-> d, fromOne |-> FALSE] : n \in {0, 1}, d \in {2, 4, 131072}}
  \cup {[num |-> n, den |-> d, fromOne |-> TRUE] : n \in {1, 2}, d \in {4, 131072}}

\* the least integer not below a/d
Ceiling(a, d) == 0 - ((0 - a) \div d)

\* Math.floor(r * n)
FloorOfProduct(r, n) ==
  IF r.fromOne THEN n - Ceiling(r.num * n, r.den) ELSE (r.num * n) \div r.den

\* faulty variant of WaitTime: the product is rounded up
WaitTimeRoundedUp(min, max, r) ==
  LET minInterval == min * 60 * 1000
      maxInterval == max * 60 * 1000
      n == maxInterval - minInterval + 1
      roundedUp == IF r.fromOne THEN n - ((r.num * n) \div r.den)
                   ELSE Ceiling(r.num * n, r.den)
  IN roundedUp + minInterval

\* line 297-299: minInterval, maxInterval and waitTime, in milliseconds
WaitTime(min, max, r) ==
  LET minInterval == min * 60 * 1000
      maxInterval == max * 60 * 1000
  IN FloorOfProduct(r, maxInterval - minInterval + 1) + minInterval

\* a cycle has ended: the configuration and the next value of Math.random()
WaitInit ==
  /\ pc = "cycleEnd"
  /\ wallets = [i \in 1..NumWallets |-> TRUE]
  /\ validKey = [i \in 1..NumWallets |-> TRUE]
  /\ fatal = "none"
  /\ wallet = 1
  /\ balances = NoSnapshot
  /\ bestToken = Null
  /\ ethBalance = Unread
  /\ updatedEthBalance = Unread
  /\ baseETHBalance = Unread
  /\ bridgeSuccess = "none"
  /\ updatedStatus = "none"
  /\ lastGas = NoGas
  /\ gasEstimate = Unread
  /\ gasPrice = Unread
  /\ swapQuote = NoQuote
  /\ swapTargetSymbol = "none"
  /\ swapResult = NoResult
  /\ quoteParams = NoParams
  /\ quoteResponse = NoResponse
  /\ \E min \in IntervalMinutes, max \in IntervalMinutes, r \in Randoms :
       ops = <<[op |-> "wait", st |-> "started", REPEAT_INTERVAL_MIN |-> min,
                REPEAT_INTERVAL_MAX |-> max, random |-> r]>>
  /\ txs = <<>>
  /\ outcome = "Skipped"
  /\ error = NoError
  /\ allowanceRead = NoAllowance
  /\ initialStatus = "none"

waitFrame == <<wallets, validKey, fatal, wallet, balances, bestToken, ethBalance,
               updatedEthBalance, baseETHBalance, bridgeSuccess, updatedStatus,
               lastGas, gasEstimate, gasPrice, swapQuote, swapTargetSymbol,
               swapResult, quoteParams, quoteResponse, txs, outcome, error,
               allowanceRead, initialStatus>>

\* line 297-302: the wait is computed and the timer is set
SetTimer ==
  /\ pc = "cycleEnd"
  /\ ops' = <<[op |-> "wait", st |-> "ok",
               REPEAT_INTERVAL_MIN |-> ops[1].REPEAT_INTERVAL_MIN,
               REPEAT_INTERVAL_MAX |-> ops[1].REPEAT_INTERVAL_MAX,
               random |-> ops[1].random,
               waitTime |-> WaitTime(ops[1].REPEAT_INTERVAL_MIN,
                                     ops[1].REPEAT_INTERVAL_MAX, ops[1].random)]>>
  /\ pc' = "sleep"
  /\ UNCHANGED waitFrame

\* line 302: the timer fires and the loop goes to its next iteration
TimerFires ==
  /\ pc = "sleep"
  /\ pc' = "pick"
  /\ UNCHANGED <<waitFrame, ops>>

WaitNext == SetTimer \/ TimerFires

SpecWait == WaitInit /\ [][WaitNext]_vars

----------------------------------------------------------------------------
(* The slippage sent with the two quote requests of a cycle *)

\* values of config.SLIPPAGE_TOLERANCE, a percentage, in thousandths of a
\* percent: "0", "0.1", the default "0.5" and "1"
SlippageSettings == {0, 100, 500, 1000}

\* getQuote line 75: slippage: 0.1, a percentage, in thousandths of a percent
getQuoteSlippage == 100

\* line 635 and requestBridgeQuote line 410: the setting, or "0.5" when there
\* is none (loadConfig always gives one; the string "0" counts as one)
BridgeSlippageParam(setting) == IF setting = Unspecified THEN 500 ELSE setting

\* requestQuote line 30: Math.round(parseFloat(slippageTolerance) * 100), the
\* percentage in hundredths of a percent
RelaySlippage(setting) == (setting + 5) \div 10

\* a cycle with its configuration, before its swap quote is requested
SlippageInit ==
  /\ pc = "swapQuote"
  /\ wallets = [i \in 1..NumWallets |-> TRUE]
  /\ validKey = [i \in 1..NumWallets |-> TRUE]
  /\ fatal = "none"
  /\ wallet = 1
  /\ balances = NoSnapshot
  /\ bestToken = Null
  /\ ethBalance = Unread
  /\ updatedEthBalance = Unread
  /\ baseETHBalance = Unread
  /\ bridgeSuccess = "none"
  /\ updatedStatus = "none"
  /\ lastGas = NoGas
  /\ gasEstimate = Unread
  /\ gasPrice = Unread
  /\ swapQuote = NoQuote
  /\ swapTargetSymbol = "none"
  /\ swapResult = NoResult
  /\ quoteParams = NoParams
  /\ quoteResponse = NoResponse
  /\ \E setting \in SlippageSettings, c \in ChainSet, y \in Symbols, amount \in SwapOutputs :
       ops = <<[op |-> "config", st |-> "ok", SLIPPAGE_TOLERANCE |-> setting,
                sourceChainId |-> c, symbol |-> y, toAmount |-> amount]>>
  /\ txs = <<>>
  /\ outcome = "none"
  /\ error = NoError
  /\ allowanceRead = NoAllowance
  /\ initialStatus = "none"

slippageFrame == <<wallets, validKey, fatal, wallet, balances, bestToken, ethBalance,
                   updatedEthBalance, baseETHBalance, bridgeSuccess, updatedStatus,
                   lastGas, gasEstimate, gasPrice, swapQuote, swapTargetSymbol,
                   swapResult, quoteParams, quoteResponse, txs, outcome, error,
                   allowanceRead, initialStatus>>

\* line 477-484 and getQuote line 66-84: the request sent to 1inch
SendSwapQuoteRequest ==
  /\ pc = "swapQuote"
  /\ ops' = Append(ops, [op |-> "swapQuote", st |-> "started",
                         chainId |-> ops[1].sourceChainId,
                         slippage |-> getQuoteSlippage])
  /\ pc' = "bridgeQuote"
  /\ UNCHANGED slippageFrame

\* line 627-638, requestBridgeQuote line 402-412 and requestQuote line 30-43:
\* the request sent to Relay
SendBridgeQuoteRequest ==
  /\ pc = "bridgeQuote"
  /\ ops' = Append(ops, [op |-> "bridgeQuote", st |-> "started",
                         originChainId |-> ops[1].sourceChainId,
                         amount |-> ops[1].toAmount,
                         slippageTolerance |->
                           RelaySlippage(BridgeSlippageParam(
                             BridgeSlippageParam(ops[1].SLIPPAGE_TOLERANCE)))])
  /\ pc' = "requested"
  /\ UNCHANGED slippageFrame

SlippageNext == SendSwapQuoteRequest \/ SendBridgeQuoteRequest

SpecSlippage == SlippageInit /\ [][SlippageNext]_vars

----------------------------------------------------------------------------
(* approveToken, called again and again for the same wallet, chain and token *)

\* length of the event log
MaxEvents == 7

Spenders == {ROUTER, RELAYER}

\* the events that set the allowance of spender s
SetsAllowance(e, s) ==
  /\ e.op \in {"approveConfirmed", "spent", "zeroed"}
  /\ e.spender = s

\* the allowance the token contract holds for spender s: the one the log
\* started with, MaxUint256 after a confirmed approve, a remainder after the
\* spender used a part of it, zero after it was used up or revoked
OnChainAllowance(s) ==
  LET K == {k \in 2..Len(ops) : SetsAllowance(ops[k], s)}
  IN IF K = {} THEN ops[1][s]
     ELSE LET k == CHOOSE k \in K : \A j \in K : j <= k
          IN IF ops[k].op = "approveConfirmed" THEN MaxApproval
             ELSE IF ops[k].op = "spent" THEN 1
             ELSE 0

\* the spender of the call in progress
CurrentSpender ==
  LET K == {k \in 2..Len(ops) : ops[k].op \in {"allowance", "approveSent"}}
  IN ops[CHOOSE k \in K : \A j \in K : j <= k].spender

\* the token contract with some allowance for each spender, no call in progress
ApproveInit ==
  /\ pc = "idle"
  /\ wallets = [i \in 1..NumWallets |-> TRUE]
  /\ validKey = [i \in 1..NumWallets |-> TRUE]
  /\ fatal = "none"
  /\ wallet = 1
  /\ balances = NoSnapshot
  /\ bestToken = Null
  /\ ethBalance = Unread
  /\ updatedEthBalance = Unread
  /\ baseETHBalance = Unread
  /\ bridgeSuccess = "none"
  /\ updatedStatus = "none"
  /\ lastGas = NoGas
  /\ gasEstimate = Unread
  /\ gasPrice = Unread
  /\ swapQuote = NoQuote
  /\ swapTargetSymbol = "none"
  /\ swapResult = NoResult
  /\ quoteParams = NoParams
  /\ quoteResponse = NoResponse
  /\ \E a \in {0, 1} :
       ops = <<[op |-> "deployed", st |-> "ok", router |-> a, relayer |-> 0]>>
  /\ txs = <<>>
  /\ outcome = "none"
  /\ error = NoError
  /\ allowanceRead = NoAllowance
  /\ initialStatus = "none"

approveFrame == <<wallets, validKey, fatal, wallet, balances, bestToken, ethBalance,
                  updatedEthBalance, baseETHBalance, bridgeSuccess, updatedStatus,
                  lastGas, gasEstimate, gasPrice, swapQuote, swapTargetSymbol,
                  swapResult, quoteParams, quoteResponse, outcome, error,
                  allowanceRead, initialStatus>>

Event(o, s) == [op |-> o, st |-> "ok", spender |-> s]

\* approveToken line 43-50: the allowance is read; a non-zero one ends the call
\* with true, a throw ends it with false (line 70-73)
CallApproveToken ==
  /\ pc = "idle"
  /\ Len(ops) < MaxEvents
  /\ \E s \in Spenders :
       \/ /\ ops' = Append(ops, Event("allowanceFailed", s))
          /\ UNCHANGED pc
       \/ LET value == OnChainAllowance(s)
          IN /\ ops' = Append(ops, [op |-> "allowance", st |-> "ok", spender |-> s,
                                    value |-> value])
             /\ pc' = IF AlreadyApproved(value) THEN "idle" ELSE "approveSubmit"
  /\ UNCHANGED <<approveFrame, txs>>

\* approveToken line 62: approve(spender, MaxUint256) is submitted or throws
ApproveSubmit ==
  /\ pc = "approveSubmit"
  /\ Len(ops) < MaxEvents
  /\ \/ /\ ops' = Append(ops, Event("approveFailed", CurrentSpender))
        /\ pc' = "idle"
        /\ UNCHANGED txs
     \/ /\ ops' = Append(ops, Event("approveSent", CurrentSpender))
        /\ txs' = Append(txs, Tx(IF CurrentSpender = ROUTER THEN "swapApprove"
                                  ELSE "bridgeApprove",
                                 BASE, lastGas.gasPrice, Unspecified, NotFetched))
        /\ pc' = "approveWait"
  /\ UNCHANGED approveFrame

\* approveToken line 66: tx.wait() returns for a confirmed approval and throws
\* for a reverted one
ApproveWait ==
  /\ pc = "approveWait"
  /\ Len(ops) < MaxEvents
  /\ \/ /\ ops' = Append(ops, Event("approveConfirmed", CurrentSpender))
        /\ txs' = Settle("confirmed")
     \/ /\ ops' = Append(ops, Event("approveReverted", CurrentSpender))
        /\ txs' = Settle("failed")
  /\ pc' = "idle"
  /\ UNCHANGED approveFrame

\* the spender uses a part of an unlimited allowance
AllowanceSpent ==
  /\ Len(ops) < MaxEvents
  /\ \E s \in Spenders :
       /\ OnChainAllowance(s) = MaxApproval
       /\ ops' = Append(ops, Event("spent", s))
  /\ UNCHANGED <<approveFrame, pc, txs>>

\* the allowance is used up, or revoked from elsewhere
AllowanceZeroed ==
  /\ Len(ops) < MaxEvents
  /\ \E s \in Spenders :
       /\ OnChainAllowance(s) > 0
       /\ ops' = Append(ops, Event("zeroed", s))
  /\ UNCHANGED <<approveFrame, pc, txs>>

ApproveNext ==
  \/ CallApproveToken
  \/ ApproveSubmit
  \/ ApproveWait
  \/ AllowanceSpent
  \/ AllowanceZeroed

SpecApprove == ApproveInit /\ [][ApproveNext]_vars

----------------------------------------------------------------------------
(* executeSwapCycle, the flashloan swap cycle of src/index.js *)

\* the amounts main draws between MIN_AMOUNT_ETH and MAX_AMOUNT_ETH
Amounts == {10000, 20000}

\* how far the second quote's minimumAmount lies above the borrowed amount
ReturnOffsets == {0 - 200, 0, 100}

\* FEE_PRECENTAGE() of the flashloan contract, in basis points
FeeReads == {29, 30}

\* what balanceOf returns for the wallet's WETH
WethBalances == {0, 30, 239, 240, 300}

\* what allowance returns for the flashloan contract
FlashloanAllowances == {0, 1, MaxApproval}

\* what estimateGas.utang returns, in thousands of gas
FlashloanGasEstimates == {100, 250}

\* the gasPrice of executeFlashloan, 0.015 * 1e9 wei
FlashloanGasPrice == 15000000

\* SHORTFALL_BUFFER_PERCENTAGE, '5' when the variable is not set
BufferPercentage == 5

\* BigNumber.div rounds towards zero
TruncDiv(a, b) == IF a >= 0 THEN a \div b ELSE 0 - ((0 - a) \div b)

\* one entry of the cycle's log: the step, how it ended, the value it
\* returned and, for a quote, the number of steps the cycle keeps of it
Step(o, st, value, steps) == [op |-> o, st |-> st, value |-> value, steps |-> steps]

\* the step o has returned a value
Obtained(o) == \E i \in 1..Len(ops) : ops[i].op = o /\ ops[i].st = "ok"

\* the entry of the step o
Local(o) == ops[CHOOSE i \in 1..Len(ops) : ops[i].op = o]

\* getFlashloanFeePercentage line 135 and calculateRequiredTokens line 160:
\* Math.floor((bps / 100) * 100), on doubles, is one short of bps for these
\* values below 100
FloorOfFeePercentage(bps) == IF bps \in {29, 57, 58} THEN bps - 1 ELSE bps

\* line 145-147
initialAmount == Local("amount").value
returnedAmount == Local("inquiry2").value
shortfallAmount == initialAmount - returnedAmount

\* calculateRequiredTokens line 160
feeAmount == TruncDiv(initialAmount * FloorOfFeePercentage(Local("fee").value), 10000)

\* calculateRequiredTokens line 164
bufferAmount == TruncDiv(shortfallAmount * (BufferPercentage * 100), 10000)

\* faulty variant of totalRequired: the buffer is left out
totalRequiredWithoutBuffer == shortfallAmount + feeAmount

\* calculateRequiredTokens line 167
totalRequired == shortfallAmount + feeAmount + bufferAmount

FlashloanInit ==
  /\ pc = "inquiry1"
  /\ wallets = [i \in 1..NumWallets |-> TRUE]
  /\ validKey = [i \in 1..NumWallets |-> TRUE]
  /\ fatal = "none"
  /\ wallet = 1
  /\ balances = NoSnapshot
  /\ bestToken = Null
  /\ ethBalance = Unread
  /\ updatedEthBalance = Unread
  /\ baseETHBalance = Unread
  /\ bridgeSuccess = "none"
  /\ updatedStatus = "none"
  /\ lastGas = NoGas
  /\ gasEstimate = Unread
  /\ gasPrice = Unread
  /\ swapQuote = NoQuote
  /\ swapTargetSymbol = "none"
  /\ swapResult = NoResult
  /\ quoteParams = NoParams
  /\ quoteResponse = NoResponse
  /\ \E amount \in Amounts : ops = <<Step("amount", "ok", amount, 0)>>
  /\ txs = <<>>
  /\ outcome = "none"
  /\ error = NoError
  /\ allowanceRead = NoAllowance
  /\ initialStatus = "none"

flashloanFrame == <<wallets, validKey, fatal, wallet, balances, bestToken, ethBalance,
                    updatedEthBalance, baseETHBalance, bridgeSuccess, updatedStatus,
                    lastGas, gasEstimate, gasPrice, swapQuote, swapTargetSymbol,
                    swapResult, quoteParams, quoteResponse, allowanceRead,
                    initialStatus>>

\* an error leaves executeSwapCycle; main's catch (line 73-75) logs it
CycleThrows(message) ==
  /\ pc' = "done"
  /\ outcome' = "Failed"
  /\ error' = [step |-> pc, message |-> message]

\* the cycle goes on to the step next
CycleContinues(next) ==
  /\ pc' = next
  /\ UNCHANGED <<outcome, error>>

\* line 109-123: the first quote; requestQuote rethrows, line 119 reads
\* data.steps before the test of line 121, which throws without data.details
RequestInquiry1 ==
  /\ pc = "inquiry1"
  /\ \/ /\ \E message \in {"Request failed", "TypeError",
                            "Failed to get quote for WETH to USDC"} :
             CycleThrows(message)
        /\ ops' = Append(ops, Step("inquiry1", "failed", 0, 0))
     \/ /\ \E swapSteps \in {0, 1} :
             ops' = Append(ops, Step("inquiry1", "ok", 25, swapSteps))
        /\ CycleContinues("inquiry2")
  /\ UNCHANGED <<flashloanFrame, txs>>

\* line 129-147: the second quote, for the first one's minimumAmount
RequestInquiry2 ==
  /\ pc = "inquiry2"
  /\ \/ /\ \E message \in {"Request failed", "Failed to get quote for USDC to WETH"} :
             CycleThrows(message)
        /\ ops' = Append(ops, Step("inquiry2", "failed", 0, 0))
     \/ /\ \E offset \in ReturnOffsets, steps \in {0, 1} :
             ops' = Append(ops, Step("inquiry2", "ok", initialAmount + offset, steps))
        /\ CycleContinues("fee")
  /\ UNCHANGED <<flashloanFrame, txs>>

\* line 154 and getFlashloanFeePercentage: 0.3 when the read fails
ReadFeePercentage ==
  /\ pc = "fee"
  /\ \/ ops' = Append(ops, Step("fee", "failed", 30, 0))
     \/ \E bps \in FeeReads : ops' = Append(ops, Step("fee", "ok", bps, 0))
  /\ CycleContinues("balance")
  /\ UNCHANGED <<flashloanFrame, txs>>

\* line 193-203: the arguments of generatePayload read steps[0].items of both
\* quotes, outside the try of line 208
BuildPayload ==
  IF Local("inquiry1").steps = 0 \/ Local("inquiry2").steps = 0
  THEN CycleThrows("TypeError")
  ELSE CycleContinues("estimate")

\* line 162-183: checkTokenBalance rethrows; a balance below the required
\* amount throws; a positive shortfall calls approveToken
CheckTokenBalance ==
  /\ pc = "balance"
  /\ \/ /\ CycleThrows("Read failed")
        /\ ops' = Append(ops, Step("balance", "failed", 0, 0))
     \/ \E balance \in WethBalances :
          /\ ops' = Append(ops, Step("balance", "ok", balance, 0))
          /\ IF balance < totalRequired
             THEN CycleThrows("Insufficient balance to cover shortfall and fee")
             ELSE IF shortfallAmount > 0
                  THEN CycleContinues("allowance")
                  ELSE BuildPayload
  /\ UNCHANGED <<flashloanFrame, txs>>

\* approveToken line 43-50 and 70-73, index.js line 180-182
ReadFlashloanAllowance ==
  /\ pc = "allowance"
  /\ \/ /\ CycleThrows("Failed to approve token for flashloan contract")
        /\ ops' = Append(ops, Step("allowance", "failed", 0, 0))
     \/ \E allowance \in FlashloanAllowances :
          /\ ops' = Append(ops, Step("allowance", "ok", allowance, 0))
          /\ IF AlreadyApproved(allowance)
             THEN BuildPayload
             ELSE CycleContinues("approve")
  /\ UNCHANGED <<flashloanFrame, txs>>

\* approveToken line 62: approve(flashloan contract, MaxUint256)
SubmitFlashloanApproval ==
  /\ pc = "approve"
  /\ \/ /\ CycleThrows("Failed to approve token for flashloan contract")
        /\ ops' = Append(ops, Step("approve", "failed", 0, 0))
        /\ UNCHANGED txs
     \/ /\ CycleContinues("approveWait")
        /\ ops' = Append(ops, Step("approve", "ok", MaxApproval, 0))
        /\ txs' = Append(txs, Tx("flashloanApprove", BASE, lastGas.gasPrice, Unspecified,
                                 NotFetched))
  /\ UNCHANGED flashloanFrame

\* approveToken line 66: tx.wait() of the approval
WaitFlashloanApproval ==
  /\ pc = "approveWait"
  /\ \/ /\ CycleThrows("Failed to approve token for flashloan contract")
        /\ ops' = Append(ops, Step("approveWait", "failed", 0, 0))
        /\ txs' = Settle("failed")
     \/ /\ BuildPayload
        /\ ops' = Append(ops, Step("approveWait", "ok", MaxApproval, 0))
        /\ txs' = Settle("confirmed")
  /\ UNCHANGED flashloanFrame

\* line 209-218 and estimateGas: the number 0 when the estimation throws, the
\* estimate with a fifth added otherwise
EstimateFlashloanGas ==
  /\ pc = "estimate"
  /\ \/ /\ ops' = Append(ops, Step("estimateGas", "failed", 0, 0))
        /\ pc' = "done"
        /\ outcome' = "Skipped"
        /\ UNCHANGED error
     \/ /\ \E estimate \in FlashloanGasEstimates :
             ops' = Append(ops, Step("estimateGas", "ok", (estimate * 120) \div 100, 0))
        /\ CycleContinues("submit")
  /\ UNCHANGED <<flashloanFrame, txs>>

\* line 225-231 and executeFlashloan: utang(...) is submitted or throws into
\* the catch of line 241
SubmitFlashloan ==
  /\ pc = "submit"
  /\ \/ /\ CycleThrows("Transaction would fail")
        /\ ops' = Append(ops, Step("flashloan", "failed", 0, 0))
        /\ UNCHANGED txs
     \/ /\ CycleContinues("wait")
        /\ ops' = Append(ops, Step("flashloan", "ok", initialAmount, 0))
        /\ txs' = Append(txs, Tx("flashloan", BASE, lastGas.gasPrice, FlashloanGasPrice,
                                 NotFetched))
  /\ UNCHANGED flashloanFrame

\* line 236-244: tx.wait() of the flashloan
WaitFlashloan ==
  /\ pc = "wait"
  /\ \/ /\ CycleThrows("Transaction would fail")
        /\ ops' = Append(ops, Step("receipt", "failed", 0, 0))
        /\ txs' = Settle("failed")
     \/ /\ pc' = "done"
        /\ outcome' = "Completed"
        /\ UNCHANGED error
        /\ ops' = Append(ops, Step("receipt", "ok", 1, 0))
        /\ txs' = Settle("confirmed")
  /\ UNCHANGED flashloanFrame

FlashloanNext ==
  \/ RequestInquiry1
  \/ RequestInquiry2
  \/ ReadFeePercentage
  \/ CheckTokenBalance
  \/ ReadFlashloanAllowance
  \/ SubmitFlashloanApproval
  \/ WaitFlashloanApproval
  \/ EstimateFlashloanGas
  \/ SubmitFlashloan
  \/ WaitFlashloan

SpecFlashloan == FlashloanInit /\ [][FlashloanNext]_vars

----------------------------------------------------------------------------
(* checkTokenBalancesAcrossChains, read by read *)

\* Object.entries(this.tokenAddresses[chainId]): USDC, then WETH
TokenOrder == <<"USDC", "WETH">>

\* number of token reads of one call: every token of every chain
TokenReads == Len(chainIds) * Len(TokenOrder)

\* the chain and the token of read number k (from 1), chains in the order of
\* Object.entries(this.chainIds)
ReadChain(k) == chainIds[((k - 1) \div Len(TokenOrder)) + 1]
ReadSymbol(k) == TokenOrder[((k - 1) % Len(TokenOrder)) + 1]

\* an object without keys
EmptyObject == [x \in {} |-> 0]

\* line 247: balances[chainId] = { chainName }, before the tokens of the chain
\* are read
EnterChain(b, chainId) ==
  [c \in DOMAIN b \cup {chainId} |-> IF c = chainId THEN EmptyObject ELSE b[c]]

\* faulty variant of StoreEntry: an error is written over every entry of the chain
StoreEntryChainWide(b, chainId, symbol, e) ==
  [c \in DOMAIN b |->
     IF c # chainId THEN b[c]
     ELSE [y \in DOMAIN b[c] \cup {symbol} |->
             IF y = symbol \/ e.error THEN e ELSE b[c][y]]]

\* line 263 and 273: balances[chainId][symbol] = ...; only that key is written
StoreEntry(b, chainId, symbol, e) ==
  [c \in DOMAIN b |->
     IF c # chainId THEN b[c]
     ELSE [y \in DOMAIN b[c] \cup {symbol} |-> IF y = symbol THEN e ELSE b[c][y]]]

\* the end of one iteration of the token loop: read k is logged, its entry is
\* stored; then the next token, the next chain, or `return balances`
FinishRead(st, e) ==
  LET k == Len(ops) + 1
      stored == StoreEntry(balances, ReadChain(k), ReadSymbol(k), e)
  IN /\ ops' = Append(ops, [op |-> "tokenRead", st |-> st, chain |-> ReadChain(k),
                             symbol |-> ReadSymbol(k), balance |-> e.balance])
     /\ IF k = TokenReads
        THEN balances' = stored /\ pc' = "returned"
        ELSE /\ balances' = IF ReadChain(k + 1) # ReadChain(k)
                             THEN EnterChain(stored, ReadChain(k + 1)) ELSE stored
             /\ pc' = "decimals"

\* the call has run to its first await: the first chain is entered
BalancesInit ==
  /\ pc = "decimals"
  /\ wallets = [i \in 1..NumWallets |-> FALSE]
  /\ validKey = [i \in 1..NumWallets |-> TRUE]
  /\ fatal = "none"
  /\ wallet = 0
  /\ balances = EnterChain(EmptyObject, ReadChain(1))
  /\ NoLocals

balancesFrame == <<wallets, validKey, fatal, wallet, bestToken, ethBalance,
                   updatedEthBalance, baseETHBalance, bridgeSuccess, updatedStatus,
                   lastGas, gasEstimate, gasPrice, swapQuote, swapTargetSymbol,
                   swapResult, quoteParams, quoteResponse, txs, outcome, error,
                   allowanceRead, initialStatus>>

\* line 259: tokenContract.decimals(); a throw is caught at line 271 and gives
\* the entry { error }
ReadDecimals ==
  /\ pc = "decimals"
  /\ \/ FinishRead("failed", ErrEntry)
     \/ pc' = "balanceOf" /\ UNCHANGED <<balances, ops>>
  /\ UNCHANGED balancesFrame

\* line 260-268: tokenContract.balanceOf(walletAddress); a throw is caught at
\* line 271, a balance is stored with its address, decimals and formatted text
ReadBalanceOf ==
  /\ pc = "balanceOf"
  /\ \/ FinishRead("failed", ErrEntry)
     \/ \E e \in CycleEntries(ReadSymbol(Len(ops) + 1)) \ {ErrEntry} : FinishRead("ok", e)
  /\ UNCHANGED balancesFrame

BalancesNext == ReadDecimals \/ ReadBalanceOf

SpecBalances == BalancesInit /\ [][BalancesNext]_vars

----------------------------------------------------------------------------
(* Properties *)

CycleOps == <<"swapQuote", "swapApprove", "swapExec", "bridgeQuote",
              "bridgeApprove", "bridgeDeposit", "statusPoll">>

OpIndex(o) ==
  CASE o = "swapQuote" -> 1
    [] o = "swapApprove" -> 2
    [] o = "swapExec" -> 3
    [] o = "bridgeQuote" -> 4
    [] o = "bridgeApprove" -> 5
    [] o = "bridgeDeposit" -> 6
    [] o = "statusPoll" -> 7
    [] OTHER -> 0

IsCycleOp(e) == OpIndex(e.op) > 0

\* the operations of the running cycle that belong to the swap and bridge sequence
CycleLog == SelectSeq(ops, IsCycleOp)

TxOps == {txs[i].op : i \in 1..Len(txs)}

\* C1: the external operations of a cycle occur in the order swap quote, router
\* approval, swap, bridge quote, bridge approval, deposit, status poll; an
\* operation starts only when every earlier one of the list has succeeded (the
\* bridge approval alone may be missing), so a deposit is submitted only in a
\* cycle whose swap succeeded
C1_OrderedSteps ==
  LET L == CycleLog
      n == Len(L)
  IN /\ \A i \in 1..n :
          /\ i < n => L[i].st = "ok"
          /\ i > 1 => OpIndex(L[i - 1].op) < OpIndex(L[i].op)
          /\ \A k \in 1..(OpIndex(L[i].op) - 1) :
               \/ CycleOps[k] = "bridgeApprove"
               \/ \E j \in 1..(i - 1) : L[j].op = CycleOps[k] /\ L[j].st = "ok"
     /\ "bridgeDeposit" \in TxOps =>
          /\ "swapExec" \in TxOps
          /\ \E j \in 1..n : L[j].op = "swapExec" /\ L[j].st = "ok"

\* a completed cycle that went through all seven operations
C1_Witness ==
  /\ outcome = "Completed"
  /\ Len(CycleLog) = 7
  /\ "bridgeDeposit" \in TxOps

WriteOps == {"swapApprove", "swapExec", "bridgeApprove", "bridgeDeposit",
             "wrap", "rescueDeposit"}

\* C2: no write operation of the cycle or of the gas rescue is submitted when
\* the price fetched by the gas check before it is above 0.1 gwei (1e8 wei)
C2_NoTxAboveCeiling ==
  \A i \in 1..Len(txs) :
    txs[i].op \in WriteOps => txs[i].checked <= 100000000

\* all six write operations submitted in one cycle, each after a check that
\* returned exactly the ceiling
C2_Witness ==
  /\ TxOps = WriteOps
  /\ \A i \in 1..Len(txs) : txs[i].checked = 100000000

SourceTxOps == {"swapApprove", "swapExec", "bridgeApprove", "bridgeDeposit"}

\* the guard ended Insufficient after a rescue attempt: the rescue reported
\* failure, or it reported success and the balance read again did not pass
GuardInsufficient ==
  \/ bridgeSuccess = "false"
  \/ bridgeSuccess = "true" /\ updatedEthBalance # Unread /\ updatedEthBalance <= 500000

\* C3: an approval, swap or deposit is submitted only if the balance read by
\* the gas guard was at least 0.0005 ETH (500000 gwei), or the rescue reported
\* success and the balance read again was sufficient; a guard that ends
\* Insufficient after a rescue attempt ends the cycle Skipped
C3_GasGuard ==
  /\ TxOps \cap SourceTxOps # {} =>
       \/ ethBalance >= 500000
       \/ bridgeSuccess = "true" /\ updatedEthBalance >= 500000
  /\ GuardInsufficient =>
       /\ outcome = "Skipped"
       /\ TxOps \cap SourceTxOps = {}

\* a cycle that went on to swap after a successful rescue
C3_Witness ==
  /\ ethBalance # Unread /\ ethBalance < 500000
  /\ bridgeSuccess = "true"
  /\ "swapExec" \in TxOps

\* C4: with the source chain below 0.0005 ETH and Base below 0.0015 ETH the
\* rescue reports failure, the cycle ends Skipped and nothing is submitted
C4_RescueAbandoned ==
  ( /\ ethBalance # Unread /\ ethBalance < 500000
    /\ baseETHBalance # Unread /\ baseETHBalance < 1500000 )
  => /\ bridgeSuccess = "false"
     /\ outcome = "Skipped"
     /\ txs = <<>>

\* Base read one gwei short of the requirement for a source chain other than Base
C4_Witness ==
  /\ ethBalance = 499999
  /\ baseETHBalance = 1499999
  /\ bestToken # Null /\ bestToken.sourceChainId # BASE
  /\ outcome = "Skipped"

\* a chain holds the symbol at or above the minimum m
Qualifies(b, symbol, m) ==
  \E c \in ChainSet : ~b[c][symbol].error /\ b[c][symbol].balance >= m

\* C5: when some chain holds WETH at or above 0.001, the candidate is WETH
\* whatever the USDC balances are
C5_WethDominates ==
  (pc = "selected" /\ Qualifies(balances, "WETH", 1000000))
  => bestToken # Null /\ bestToken.symbol = "WETH"

\* WETH wins against a larger qualifying USDC balance
C5_Witness ==
  /\ pc = "selected"
  /\ bestToken # Null /\ bestToken.symbol = "WETH" /\ bestToken.balance = 1000000
  /\ \E c \in ChainSet : ~balances[c]["USDC"].error /\ balances[c]["USDC"].balance = 1000001

\* position of a chain in the iteration over the snapshot
KeyPos(c) == CHOOSE i \in 1..Len(BalanceKeyOrder) : BalanceKeyOrder[i] = c

\* C6: a candidate's balance is the snapshot's balance of its symbol on its
\* chain, is at or above the symbol's minimum and is not below the balance of
\* the symbol on any other chain; on a tie the first chain in iteration order wins
C6_LargestQualifying ==
  (pc = "selected" /\ bestToken # Null) =>
    LET sym == bestToken.symbol
        src == bestToken.sourceChainId
    IN /\ ~balances[src][sym].error
       /\ bestToken.balance = balances[src][sym].balance
       /\ bestToken.balance >= 1000000
       /\ \A c \in ChainSet :
            ~balances[c][sym].error =>
              /\ balances[c][sym].balance <= bestToken.balance
              /\ balances[c][sym].balance = bestToken.balance => KeyPos(src) <= KeyPos(c)

\* two chains tie on the largest WETH balance and a third holds less
C6_Witness ==
  /\ pc = "selected"
  /\ bestToken # Null /\ bestToken.symbol = "WETH" /\ bestToken.balance = 1000001
  /\ \E c \in ChainSet : /\ c # bestToken.sourceChainId
                         /\ balances[c]["WETH"] = OkEntry(1000001)
  /\ \E c \in ChainSet : balances[c]["WETH"] = OkEntry(1000000)

\* C7: when no chain holds WETH at or above 0.001 nor USDC at or above 1 (a
\* failed read counts as no balance), the selection yields no candidate
C7_NoneQualifies ==
  ( /\ pc = "selected"
    /\ ~Qualifies(balances, "WETH", 1000000)
    /\ ~Qualifies(balances, "USDC", 1000000) )
  => bestToken = Null

\* no candidate from a snapshot that mixes failed reads and balances below the minimum
C7_Witness ==
  /\ pc = "selected"
  /\ bestToken = Null
  /\ \E c \in ChainSet : balances[c]["WETH"] = OkEntry(999999)
  /\ \E c \in ChainSet : balances[c]["USDC"] = OkEntry(999999)
  /\ \E c \in ChainSet : balances[c]["USDC"].error

\* C8: when the selection finds no candidate the cycle ends Skipped, without
\* an error reaching main, and nothing is submitted
C8_NoCandidateSkipped ==
  (pc = "sleep" /\ bestToken = Null) => (outcome = "Skipped" /\ txs = <<>>)

\* C9: when no chain holds WETH at or above its minimum but some chain holds
\* USDC at or above 1, the candidate is USDC with target WETH
C9_UsdcFallback ==
  ( /\ pc = "selected"
    /\ ~Qualifies(balances, "WETH", 1000000)
    /\ Qualifies(balances, "USDC", 1000000) )
  => /\ bestToken # Null
     /\ bestToken.symbol = "USDC"
     /\ bestToken.targetSymbol = "WETH"

\* scenario B: WETH below the minimum and USDC above it on Arbitrum
C9_Witness ==
  /\ pc = "selected"
  /\ balances[42161]["WETH"] = OkEntry(999999)
  /\ balances[42161]["USDC"] = OkEntry(1000001)
  /\ bestToken # Null /\ bestToken.symbol = "USDC" /\ bestToken.sourceChainId = 42161

Opposite(symbol) == IF symbol = "WETH" THEN "USDC" ELSE "WETH"

\* C10: the swap target is the opposite of the candidate's symbol, and the
\* symbol asked from the bridge for the destination chain is the opposite of
\* the swap target, that is the candidate's symbol
C10_Alternation ==
  /\ swapTargetSymbol # "none" =>
       /\ swapTargetSymbol = Opposite(bestToken.symbol)
       /\ swapTargetSymbol # bestToken.symbol
  /\ quoteParams # NoParams =>
       /\ quoteParams.symbol = swapTargetSymbol
       /\ quoteParams.targetSymbol = Opposite(swapTargetSymbol)
       /\ quoteParams.targetSymbol = bestToken.symbol
       /\ quoteParams.destinationCurrency =
            tokenAddresses(quoteParams.destinationChainId, bestToken.symbol)

\* a bridge quote requested in a cycle that started from USDC
C10_Witness ==
  /\ quoteParams # NoParams
  /\ bestToken.symbol = "USDC"
  /\ quoteParams.targetSymbol = "USDC"

\* status of the cycle's operation o in the log: "absent" when it never started
OpStatus(o) ==
  IF \E i \in 1..Len(ops) : ops[i].op = o
  THEN ops[CHOOSE i \in 1..Len(ops) : ops[i].op = o].st
  ELSE "absent"

\* C11: the destination chain drawn for a cycle belongs to the four supported
\* chains and differs from the source chain, for every source chain
C11_DestinationChain ==
  quoteParams # NoParams =>
    /\ quoteParams.originChainId = bestToken.sourceChainId
    /\ quoteParams.destinationChainId \in {8453, 42161, 10, 59144}
    /\ quoteParams.destinationChainId # bestToken.sourceChainId

\* a bridge quote requested from Linea to Optimism
C11_Witness ==
  /\ quoteParams # NoParams
  /\ bestToken.sourceChainId = 59144
  /\ quoteParams.destinationChainId = 10

\* C12: the process exits only when loading the configuration or the wallets
\* fails at startup or when no wallet is active
C12_ExitCauses ==
  pc = "exit" =>
    fatal \in {"FLASHLOAN_CONTRACT is required in .env file", "Wallet file not found",
               "No wallets found in wallet file", "Invalid wallet data",
               "No active wallets found"}

\* C13: with an active wallet and every call and sleep returning, cycles run
\* for ever: the pick of a wallet and the sleep that follows a cycle always
\* lead to the start of a new cycle
C13_CyclesForever ==
  (ActiveWallets # {} /\ pc \in {"pick", "sleep"}) ~> (pc = "balances")

\* C14: when executeSwap refuses for the gas price, no swap is submitted and the
\* cycle ends Skipped
C14_HighGasSwapSkipped ==
  (pc = "sleep" /\ swapResult = [success |-> FALSE, toAmount |-> Unread,
                                 error |-> "high_gas_price"])
  => (outcome = "Skipped" /\ "swapExec" \notin TxOps)

\* the swap or the deposit was submitted and then failed
OnChainFailure ==
  \/ error.step = "swapExec" /\ "swapExec" \in TxOps
  \/ error.step = "bridgeDeposit" /\ "bridgeDeposit" \in TxOps

\* the pre-flight gas estimate found the funds insufficient: the estimate was
\* rejected for insufficient funds, or the cost computed from it exceeds the balance
PreflightInsufficient ==
  \/ error.step = "preflight"
  \/ /\ error.step = "estimateGas"
     /\ error.message = "insufficient funds for intrinsic transaction cost"

\* C15: a cycle whose swap or deposit failed on chain, or whose pre-flight gas
\* estimate found insufficient funds, ends Failed
C15_EscalatedToFailed ==
  (pc = "sleep" /\ (OnChainFailure \/ PreflightInsufficient)) => outcome = "Failed"

\* C15 as the code has it: an on-chain failure of the swap or the deposit, or a
\* pre-flight cost above the balance, ends the cycle Failed; an error of the
\* swap or bridge phase whose message contains 'insufficient funds' (a gas
\* estimate or a send rejected for insufficient funds) ends it Skipped
C15_FailedOrSkipped ==
  pc = "sleep" =>
    /\ (error.step = "swapExec" /\ "swapExec" \in TxOps) => outcome = "Failed"
    /\ (error.step = "bridgeDeposit" /\ error.message = "transaction failed") =>
         outcome = "Failed"
    /\ error.step = "preflight" => outcome = "Failed"
    /\ (/\ error.step \in {"estimateGas", "bridgeDeposit"}
        /\ error.message = "insufficient funds for intrinsic transaction cost") =>
         outcome = "Skipped"

\* a cycle whose pre-flight gas estimate was rejected for insufficient funds
C15_Witness ==
  /\ pc = "sleep"
  /\ error = [step |-> "estimateGas",
              message |-> "insufficient funds for intrinsic transaction cost"]
  /\ outcome = "Skipped"
  /\ "swapExec" \notin TxOps

\* C16: an approval is submitted only after an allowance of zero was read; a
\* non-zero allowance of any size gives success without a transaction; with a
\* zero allowance success comes only through a submitted approval; a failed
\* approval ends the cycle Failed
C16_ApproveOnlyAtZero ==
  /\ "swapApprove" \in TxOps => allowanceRead.router = 0
  /\ "bridgeApprove" \in TxOps => allowanceRead.relayer = 0
  /\ allowanceRead.router > 0 =>
       "swapApprove" \notin TxOps /\ OpStatus("swapApprove") = "ok"
  /\ allowanceRead.relayer > 0 =>
       "bridgeApprove" \notin TxOps /\ OpStatus("bridgeApprove") = "ok"
  /\ (allowanceRead.router = 0 /\ OpStatus("swapApprove") = "ok") =>
       "swapApprove" \in TxOps
  /\ (allowanceRead.relayer = 0 /\ OpStatus("bridgeApprove") = "ok") =>
       "bridgeApprove" \in TxOps
  /\ (OpStatus("swapApprove") = "failed" \/ OpStatus("bridgeApprove") = "failed") =>
       outcome = "Failed"

\* a completed cycle in which the router held an allowance of 1, far below the
\* amount swapped, and the relayer none
C16_Witness ==
  /\ outcome = "Completed"
  /\ allowanceRead.router = 1 /\ "swapApprove" \notin TxOps
  /\ allowanceRead.relayer = 0 /\ "bridgeApprove" \in TxOps

\* C17: the relayer approval is skipped exactly when the swapped-out token
\* address is the native placeholder; for any other address the approval has
\* succeeded before the deposit starts, and a failed approval ends the cycle
\* Failed with no deposit
C17_BridgeApproval ==
  /\ OpStatus("bridgeApprove") # "absent" =>
       swapResult.address # "0xEeeeeEeeeEeEeeEeEeEeeEEEeeeeEeeeeeeeEEeE"
  /\ OpStatus("bridgeDeposit") # "absent" =>
       IF swapResult.address = "0xEeeeeEeeeEeEeeEeEeEeeEEEeeeeEeeeeeeeEEeE"
       THEN OpStatus("bridgeApprove") = "absent"
       ELSE OpStatus("bridgeApprove") = "ok"
  /\ OpStatus("bridgeApprove") = "failed" =>
       /\ outcome = "Failed"
       /\ OpStatus("bridgeDeposit") = "absent"
       /\ "bridgeDeposit" \notin TxOps

\* a deposit submitted without a relayer approval for the native placeholder
C17_Witness ==
  /\ "bridgeDeposit" \in TxOps
  /\ swapResult.address = "0xEeeeeEeeeEeEeeEeEeEeeEEEeeeeEeeeeeeeEEeE"
  /\ OpStatus("bridgeApprove") = "absent"

\* the quote has steps but no deposit step, or a deposit step without items
NoDepositItems(q) == q.shape = "noDeposit" \/ q.shape = "noItems"

\* C18: a bridge quote without a deposit step or without items fails the bridge
\* step: the cycle ends Failed with neither a relayer approval nor a deposit,
\* and in the gas rescue no deposit is sent
C18_MalformedQuote ==
  /\ (NoDepositItems(quoteResponse) /\ OpStatus("bridgeQuote") # "absent") =>
       /\ pc \in {"sleep", "pick", "exit"} /\ outcome = "Failed"
       /\ error = [step |-> "bridgeQuote",
                   message |-> "Invalid quote response: No deposit step found"]
       /\ OpStatus("bridgeApprove") = "absent" /\ OpStatus("bridgeDeposit") = "absent"
       /\ "bridgeApprove" \notin TxOps /\ "bridgeDeposit" \notin TxOps
  /\ (NoDepositItems(quoteResponse) /\ OpStatus("bridgeQuote") = "absent") =>
       /\ OpStatus("rescueDeposit") \in {"absent", "failed"}
       /\ "rescueDeposit" \notin TxOps

\* a cycle that swapped and then received a deposit step without items
C18_Witness ==
  /\ quoteResponse.shape = "noItems"
  /\ OpStatus("bridgeQuote") = "ok"
  /\ "swapExec" \in TxOps
  /\ outcome = "Failed"

\* C19: a deposit is sent on the chain named in the payload of the quote's
\* first deposit item, also when the caller's connection is to another chain
C19_PayloadChain ==
  /\ \A i \in 1..Len(txs) :
       txs[i].op = "bridgeDeposit" => txs[i].chain = quoteResponse.chainId
  /\ pc \in {"rescueDepositWait", "rescueStatus1", "rescueSleep", "rescueStatus2"} =>
       /\ txs[Len(txs)].op = "rescueDeposit"
       /\ txs[Len(txs)].chain = quoteResponse.chainId

\* a deposit sent on a chain that is not the cycle's source chain
C19_Witness ==
  \E i \in 1..Len(txs) :
    /\ txs[i].op = "bridgeDeposit"
    /\ txs[i].chain # bestToken.sourceChainId
    /\ txs[i].chain = quoteResponse.chainId

StatusReads == Len(SelectSeq(ops, LAMBDA e : e.op = "statusPoll"))

RescueStatusReads == Len(SelectSeq(ops, LAMBDA e : e.op = "rescueStatus"))

\* C21: after the confirmed deposit of a gas rescue the status is read, the
\* fixed wait follows, the status is read once more, and the rescue reports
\* success whatever that status is; there is no third read
C21_RescueOneRecheck ==
  /\ RescueStatusReads <= 2
  /\ pc \in {"rescueSleep", "rescueStatus2"} =>
       RescueStatusReads = 1 /\ OpStatus("rescueDeposit") = "ok"
  /\ updatedStatus # "none" =>
       /\ bridgeSuccess = "true"
       /\ RescueStatusReads = 2
       /\ pc \notin {"rescueStatus1", "rescueSleep", "rescueStatus2"}
  /\ bridgeSuccess = "true" => updatedStatus \in {"completed", "pending"}

\* a rescue that reported success on a deposit still pending after the wait
C21_Witness ==
  /\ bridgeSuccess = "true"
  /\ updatedStatus = "pending"
  /\ RescueStatusReads = 2
  /\ "rescueDeposit" \in TxOps

C23_FreshPrices ==
  \A i \in 1..Len(txs) :
    /\ txs[i].checkedAfter = i - 1
    /\ txs[i].pricedAfter \in {0 - 4, i - 1}

\* the transactions whose confirmation or failure has not been observed
Unconfirmed == {i \in 1..Len(txs) : txs[i].st = "pending"}

\* C24: at most one submitted transaction is unconfirmed, it is the one sent
\* last and the program is waiting for it; no cycle is left, and none is
\* started, while a transaction is unconfirmed or the cycle has no outcome
C24_OneUnconfirmed ==
  /\ Cardinality(Unconfirmed) <= 1
  /\ Unconfirmed # {} =>
       /\ Unconfirmed = {Len(txs)}
       /\ pc \in {"swapApproveWait", "swapWait", "bridgeApproveWait", "bridgeWait",
                  "rescueWrapWait", "rescueDepositWait"}
  /\ pc \in {"swapApproveWait", "swapWait", "bridgeApproveWait", "bridgeWait",
             "rescueWrapWait", "rescueDepositWait"} => Unconfirmed = {Len(txs)}
  /\ pc = "sleep" => outcome # "none"
  /\ (pc = "pick" /\ wallet # 0) => outcome # "none"
  /\ pc = "balances" => txs = <<>>

\* the sixth transaction of a cycle awaited after five confirmed ones
C24_Witness ==
  /\ pc = "bridgeWait"
  /\ Len(txs) = 6
  /\ Unconfirmed = {6}
  /\ \A i \in 1..5 : txs[i].st = "confirmed"

\* position of a write operation in the forward order of a cycle
TxIndex(o) ==
  CASE o = "wrap" -> 1
    [] o = "rescueDeposit" -> 2
    [] o = "swapApprove" -> 3
    [] o = "swapExec" -> 4
    [] o = "bridgeApprove" -> 5
    [] o = "bridgeDeposit" -> 6
    [] OTHER -> 0

\* C25: a cycle that a failing step ended leaves the transactions confirmed
\* before it as they are and submits nothing to undo them: every transaction of
\* the cycle is one of the forward operations, in forward order, all but the
\* last are confirmed, and an error in the swap or the bridge phase comes with
\* the approval or the swap before it still confirmed
C25_NoCompensation ==
  LET n == Len(txs)
  IN /\ \A i \in 1..n :
          /\ TxIndex(txs[i].op) > 0
          /\ i > 1 => TxIndex(txs[i - 1].op) < TxIndex(txs[i].op)
          /\ i < n => txs[i].st = "confirmed"
     /\ (outcome \in {"Failed", "Skipped"} /\ n > 0) =>
          /\ txs[n].st \in {"confirmed", "failed"}
          /\ error.step = "swapExec" => txs[n].op \in {"wrap", "rescueDeposit",
                                                       "swapApprove", "swapExec"}
          /\ error.step \in {"bridgeQuote", "bridgeApprove", "bridgeDeposit", "statusPoll"}
               => \E i \in 1..n : txs[i].op = "swapExec" /\ txs[i].st = "confirmed"

\* a swap that reverted after the router approval was confirmed
C25_Witness ==
  /\ outcome = "Failed"
  /\ error.step = "swapExec"
  /\ Len(txs) = 2
  /\ txs[1].op = "swapApprove" /\ txs[1].st = "confirmed"
  /\ txs[2].op = "swapExec" /\ txs[2].st = "failed"

\* C26: every token read that has been made left its own entry: an error for
\* a failed read, the balance read otherwise, whatever happened to the other
\* reads; the returned snapshot has the four chains, each with its two
\* tokens, and each token of each chain was read once
C26_EveryChainReported ==
  /\ \A k \in 1..Len(ops) :
       LET c == ops[k].chain
           y == ops[k].symbol
       IN /\ c \in DOMAIN balances /\ y \in DOMAIN balances[c]
          /\ ops[k].st = "failed" => balances[c][y].error
          /\ ops[k].st = "ok" =>
               ~balances[c][y].error /\ balances[c][y].balance = ops[k].balance
  /\ pc = "returned" =>
       /\ DOMAIN balances = {8453, 42161, 10, 59144}
       /\ \A c \in DOMAIN balances : DOMAIN balances[c] = {"USDC", "WETH"}
       /\ \A c \in DOMAIN balances : \A y \in {"USDC", "WETH"} :
            Cardinality({k \in 1..Len(ops) : ops[k].chain = c /\ ops[k].symbol = y}) = 1

\* a returned snapshot: on Base USDC failed and WETH was read after it, both
\* reads failed on Optimism, and the last read, WETH on Linea, succeeded
C26_Witness ==
  /\ pc = "returned"
  /\ balances[8453]["USDC"].error /\ ~balances[8453]["WETH"].error
  /\ balances[10]["USDC"].error /\ balances[10]["WETH"].error
  /\ ~balances[59144]["USDC"].error
  /\ ~balances[59144]["WETH"].error /\ balances[59144]["WETH"].balance = 1000000

\* C27: the bridge quote never names the zero address as origin currency;
\* when the swap result's output address is the zero address, the quote is
\* requested with the registry address of the swap target on the source
\* chain and with the swap target's symbol
C27_ZeroAddressReplaced ==
  quoteParams # NoParams =>
    /\ quoteParams.originCurrency # "0x0000000000000000000000000000000000000000"
    /\ swapResult.rawAddress = "0x0000000000000000000000000000000000000000" =>
         /\ quoteParams.originCurrency =
              tokenAddresses(bestToken.sourceChainId, swapTargetSymbol)
         /\ quoteParams.originChainId = bestToken.sourceChainId
         /\ quoteParams.symbol = swapTargetSymbol
         /\ swapResult.address = quoteParams.originCurrency

\* a bridge quote requested on Arbitrum after a swap to USDC whose result
\* carried the zero address
C27_Witness ==
  /\ quoteParams # NoParams
  /\ swapResult.rawAddress = "0x0000000000000000000000000000000000000000"
  /\ bestToken.sourceChainId = 42161
  /\ swapTargetSymbol = "USDC"
  /\ quoteParams.originCurrency = tokenAddresses(42161, "USDC")

\* C28: the destination currency of the request is the explicit
\* destinationCurrency when one is given; otherwise the registry address of
\* targetSymbol on the destination chain when targetSymbol is given;
\* otherwise the registry address of the bridged symbol on the destination chain
C28_DestinationPriority ==
  quoteParams # NoParams =>
    LET p == ops[1].params
        explicit == p.destinationCurrency \notin {"absent", ""}
        targeted == p.targetSymbol \notin {"absent", ""}
    IN /\ explicit => quoteParams.destinationCurrency = p.destinationCurrency
       /\ ~explicit /\ targeted =>
            quoteParams.destinationCurrency =
              tokenAddresses(p.destinationChainId, p.targetSymbol)
       /\ ~explicit /\ ~targeted =>
            quoteParams.destinationCurrency =
              tokenAddresses(p.destinationChainId, p.symbol)
       /\ quoteParams.destinationChainId = p.destinationChainId
       /\ quoteParams.originCurrency = p.tokenAddress

\* a request sent for WETH to Optimism with the native currency given
\* explicitly beside the target symbol USDC: the explicit currency is sent
C28_Witness ==
  /\ pc = "returned"
  /\ ops[1].params.symbol = "WETH"
  /\ ops[1].params.targetSymbol = "USDC"
  /\ ops[1].params.destinationChainId = 10
  /\ ops[1].params.destinationCurrency = "0x0000000000000000000000000000000000000000"
  /\ quoteParams.destinationCurrency = "0x0000000000000000000000000000000000000000"

\* C29: in every step, the wallet a cycle runs with is a record whose active
\* flag is true in the pool, and once the pool is loaded no step changes its
\* records, their flags or their keys
C29_ActiveWalletOnly ==
  [][/\ wallet' # 0 => wallet' \in 1..NumWallets /\ wallets'[wallet']
     /\ pc # "start" => wallets' = wallets /\ validKey' = validKey]_vars

\* a cycle has got as far as waiting for its swap, run with the second record
\* of a pool whose first record is inactive
C29_Witness ==
  /\ pc = "swapWait"
  /\ wallet = 2
  /\ ~wallets[1] /\ wallets[2]

\* C30: whenever REPEAT_INTERVAL_MIN is at most REPEAT_INTERVAL_MAX, the
\* wait computed between two cycles is a whole number of milliseconds, at
\* least REPEAT_INTERVAL_MIN * 60000 and at most REPEAT_INTERVAL_MAX * 60000
C30_WaitWithinInterval ==
  (pc \in {"sleep", "pick"} /\ ops[1].REPEAT_INTERVAL_MIN <= ops[1].REPEAT_INTERVAL_MAX) =>
    /\ ops[1].waitTime \in Int
    /\ ops[1].waitTime >= ops[1].REPEAT_INTERVAL_MIN * 60000
    /\ ops[1].waitTime <= ops[1].REPEAT_INTERVAL_MAX * 60000

\* with the default interval of 1 to 2 minutes and a random value just below
\* one, the timer is set to the upper end, 120000 milliseconds
C30_Witness ==
  /\ pc = "sleep"
  /\ ops[1].REPEAT_INTERVAL_MIN = 1
  /\ ops[1].REPEAT_INTERVAL_MAX = 2
  /\ ops[1].random.fromOne
  /\ ops[1].waitTime = 120000

\* C31: the slippage sent with the swap quote request and the slippage sent
\* with the bridge quote request of a cycle are both the configured slippage
\* tolerance (the swap request states it in percent, the bridge request in
\* hundredths of a percent)
C31_ConfiguredSlippageSent ==
  \A i \in 1..Len(ops) :
    /\ ops[i].op = "swapQuote" => ops[i].slippage = ops[1].SLIPPAGE_TOLERANCE
    /\ ops[i].op = "bridgeQuote" =>
         ops[i].slippageTolerance * 10 = ops[1].SLIPPAGE_TOLERANCE

\* how many times operation o was started in the running cycle
Starts(o) == Len(SelectSeq(ops, LAMBDA e : e.op = o))

\* C32: within one cycle each write operation is started at most once and is
\* the operation of at most one submitted transaction; a transaction that
\* failed is the last one the cycle submitted, and the cycle has ended
C32_SubmittedOnce ==
  /\ \A i \in 1..Len(txs) : \A j \in 1..Len(txs) : txs[i].op = txs[j].op => i = j
  /\ \A o \in WriteOps : Starts(o) <= 1
  /\ TxOps \subseteq WriteOps
  /\ \A i \in 1..Len(txs) :
       txs[i].st = "failed" => i = Len(txs) /\ pc \in {"sleep", "pick", "exit"}

\* a cycle that ended Failed on its reverted swap, the fourth transaction
\* after the wrap, the rescue deposit and the router approval
C32_Witness ==
  /\ outcome = "Failed"
  /\ Len(txs) = 4
  /\ txs[1].op = "wrap" /\ txs[2].op = "rescueDeposit" /\ txs[3].op = "swapApprove"
  /\ txs[4].op = "swapExec" /\ txs[4].st = "failed"
  /\ Starts("swapExec") = 1

\* C33: no transaction submitted by the cycle or by the gas rescue names a
\* gas price above MAX_GAS_PRICE_GWEI, 0.1 gwei (1e8 wei); the deposits sent by
\* executeBridgeTransaction are among them
C33_NoGasPriceAboveMaximum ==
  \A i \in 1..Len(txs) :
    txs[i].gasPrice # Unspecified => txs[i].gasPrice <= 100000000

\* C34: the amount of the swap quote request is the candidate's balance as
\* the cycle's snapshot gave it, whole; the amount of the bridge quote request
\* is the expected output amount stated by the swap quote
C34_FullBalanceSwapped ==
  /\ swapQuote # NoQuote =>
       /\ swapQuote.amount = bestToken.balance
       /\ swapQuote.amount >= MIN_BRIDGE_AMOUNTS(bestToken.symbol)
  /\ quoteParams # NoParams =>
       /\ quoteParams.amount = swapQuote.toAmount
       /\ swapResult.toAmount = swapQuote.toAmount

\* a bridge quote requested for 3000000 units, the output the swap quote
\* stated for the candidate's whole USDC balance
C34_Witness ==
  /\ quoteParams # NoParams
  /\ bestToken.symbol = "USDC"
  /\ swapQuote.amount = MIN_USDC
  /\ swapQuote.toAmount = 3000000
  /\ quoteParams.amount = 3000000

\* C35: a gas check whose query failed (it reports the price 0) reports the
\* price as not acceptable, and no transaction is submitted on it: none has
\* been sent since, and every submitted transaction followed a check whose
\* query succeeded
C35_GasQueryFailsClosed ==
  /\ lastGas.gasPrice = 0 =>
       /\ ~lastGas.isAcceptable
       /\ Len(txs) = lastGas.after
       /\ pc \notin {"rescueWrap", "rescueDeposit", "swapAllowance", "swapApproveSubmit",
                     "swapSubmit", "bridgeAllowance", "bridgeApproveSubmit",
                     "bridgeSubmit"}
  /\ \A i \in 1..Len(txs) : txs[i].checked > 0

\* the gas query before the bridge deposit failed after the swap was
\* confirmed: the deposit was not submitted and the cycle has ended
C35_Witness ==
  /\ lastGas.gasPrice = 0
  /\ "swapExec" \in TxOps
  /\ "bridgeDeposit" \notin TxOps
  /\ OpStatus("bridgeDeposit") = "absent"
  /\ outcome = "Skipped"
  /\ pc = "sleep"

\* C36: the candidate's entry never carries an error; and when the read of
\* a symbol failed on some chain while another chain holds a qualifying
\* balance of that symbol, a candidate is still selected: WETH when the
\* symbol is WETH, USDC when the symbol is USDC and no WETH qualifies, and in
\* both cases with the largest qualifying balance of the symbol
C36_ErrorEntriesSkipped ==
  pc = "selected" =>
    /\ bestToken # Null => ~balances[bestToken.sourceChainId][bestToken.symbol].error
    /\ \A y \in {"WETH", "USDC"} :
         ( /\ \E c \in ChainSet : balances[c][y].error
           /\ Qualifies(balances, y, MIN_BRIDGE_AMOUNTS(y))
           /\ y = "USDC" => ~Qualifies(balances, "WETH", MIN_BRIDGE_AMOUNTS("WETH")) )
         => /\ bestToken # Null
            /\ bestToken.symbol = y
            /\ \A c \in ChainSet :
                 ~balances[c][y].error => balances[c][y].balance <= bestToken.balance

\* the WETH reads failed on Optimism and on Linea, before and after Arbitrum
\* in the iteration; Arbitrum's qualifying WETH is the candidate
C36_Witness ==
  /\ pc = "selected"
  /\ balances[10]["WETH"].error
  /\ balances[59144]["WETH"].error
  /\ bestToken # Null
  /\ bestToken.symbol = "WETH"
  /\ bestToken.sourceChainId = 42161

\* C37: after an approval for a spender was confirmed, approveToken submits
\* another approval for that spender only after the allowance went to zero
\* in between; while it stays non-zero, repeated calls submit nothing
C37_ApprovalIdempotent ==
  \A i \in 2..Len(ops) : \A j \in (i + 1)..Len(ops) :
    ( /\ ops[i].op = "approveConfirmed"
      /\ ops[j].op = "approveSent"
      /\ ops[j].spender = ops[i].spender )
    => \E k \in (i + 1)..(j - 1) : ops[k].op = "zeroed" /\ ops[k].spender = ops[i].spender

\* the router approval was confirmed and partly spent; a later call for the
\* router read the non-zero remainder and returned without a transaction
C37_Witness ==
  /\ pc = "idle"
  /\ Len(txs) = 1
  /\ \E i \in 2..Len(ops) : \E j \in (i + 1)..Len(ops) :
       /\ ops[i] = [op |-> "approveConfirmed", st |-> "ok", spender |-> "router"]
       /\ ops[j] = [op |-> "allowance", st |-> "ok", spender |-> "router", value |-> 1]

\* C38: when the rescue reported failure after its wrap was confirmed and
\* without a confirmed deposit, the cycle has ended Skipped, the wrap is still
\* confirmed, and the only other transaction there can be is the rescue
\* deposit that failed: nothing unwraps and nothing is sent afterwards
C38_WrappedAmountStays ==
  ( /\ bridgeSuccess = "false"
    /\ Len(txs) >= 1
    /\ txs[1].op = "wrap" /\ txs[1].st = "confirmed"
    /\ \A i \in 1..Len(txs) : ~(txs[i].op = "rescueDeposit" /\ txs[i].st = "confirmed") )
  => /\ outcome = "Skipped"
     /\ pc \in {"sleep", "pick", "exit"}
     /\ Len(txs) <= 2
     /\ Len(txs) = 2 => txs[2].op = "rescueDeposit" /\ txs[2].st = "failed"

\* the rescue was cancelled at the gas check before its deposit, one wei above
\* the ceiling, after the wrap was confirmed and the quote received
C38_Witness ==
  /\ bridgeSuccess = "false"
  /\ outcome = "Skipped"
  /\ Len(txs) = 1
  /\ txs[1].op = "wrap" /\ txs[1].st = "confirmed"
  /\ OpStatus("rescueQuote") = "ok"
  /\ lastGas.gasPrice = 100000001

\* C39: the affordability test before the swap compares the estimated cost
\* with the balance read at the start of the gas guard: the cycle stops at
\* that test exactly when the cost exceeds that balance, whatever was read
\* again after a rescue, and it then ends Failed without a swap transaction
C39_PreRescueBalanceTested ==
  /\ error.step = "preflight" =>
       /\ InsufficientForCost(ethBalance, gasEstimate, gasPrice)
       /\ outcome = "Failed"
       /\ "swapExec" \notin TxOps
  /\ (gasPrice # Unread /\ InsufficientForCost(ethBalance, gasEstimate, gasPrice)) =>
       /\ error.step = "preflight"
       /\ outcome = "Failed"
       /\ pc \in {"sleep", "pick", "exit"}

\* after a successful rescue the balance read again, 500001 gwei, covers the
\* estimated cost of 500000 gwei, but the balance read before the rescue,
\* 499999 gwei, does not: the cycle ended Failed
C39_Witness ==
  /\ bridgeSuccess = "true"
  /\ ethBalance = 499999
  /\ updatedEthBalance = 500001
  /\ gasEstimate = 5000
  /\ gasPrice = 100000000
  /\ ~InsufficientForCost(updatedEthBalance, gasEstimate, gasPrice)
  /\ error.step = "preflight"
  /\ outcome = "Failed"

\* C40: in executeSwapCycle the flashloan transaction is submitted only if
\* both quotes were obtained, the wallet's WETH balance is at least shortfall
\* plus fee plus buffer, the approval a positive shortfall needs succeeded, and
\* the gas estimation returned a non-zero estimate
C40_FlashloanGuarded ==
  (\E i \in 1..Len(txs) : txs[i].op = "flashloan") =>
    /\ Obtained("inquiry1")
    /\ Obtained("inquiry2")
    /\ Obtained("balance")
    /\ Local("balance").value >= shortfallAmount + feeAmount + bufferAmount
    /\ shortfallAmount > 0 =>
         \/ Obtained("allowance") /\ Local("allowance").value > 0
         \/ Obtained("approveWait")
    /\ Obtained("estimateGas")
    /\ Local("estimateGas").value > 0

\* a flashloan submitted with a balance of exactly the required amount, after
\* the approval for a positive shortfall was confirmed
C40_Witness ==
  /\ \E i \in 1..Len(txs) : txs[i].op = "flashloan"
  /\ shortfallAmount = 200
  /\ Local("balance").value = shortfallAmount + feeAmount + bufferAmount
  /\ Obtained("approveWait")
  /\ outcome = "Completed"

====
